---------------------------- MODULE Spec2Model ----------------------------
(***************************************************************************)
(* Trace-driven cache-replacement simulators: LRU, Belady/OPT, ARC, LARC   *)
(* and the two N-Hit variants, each with the driver loop that feeds it and *)
(* accumulates the statistics.                                             *)
(*                                                                         *)
(* A trace is the sequence of rows of the CSV file, reduced to the two     *)
(* columns the drivers consume: the offset (column 2) and the operation    *)
(* (column 4).  Every driver runs over the same rows, one driver after the *)
(* other, as the scripts of the repository are run one after the other.   *)
(* An OrderedDict is a sequence of keys, least recently used first; a      *)
(* deque is a sequence, oldest first; the heapq of Belady is a bag of      *)
(* <<next_use, page>> pairs; a SortedList is a sequence kept sorted.       *)
(***************************************************************************)
EXTENDS Integers, Sequences, FiniteSets, Bags, TLC

(***************************************************************************)
(* Bounds of the model.                                                    *)
(***************************************************************************)
MaxLen == 3

NumKeys == 3

MaxCap == 2

(***************************************************************************)
(* Program constants.                                                      *)
(***************************************************************************)
\* float('inf'): a next-use index larger than every index of a trace
INFINITY == 1000000

\* the page size of load_sequence (ARC, LARC)
PageSize == 4096

Offsets == {PageSize * k : k \in 0..(NumKeys - 1)}

Ops == {"Read", "Write"}

\* 10 is the smallest capacity at which LARC's recent_cache_limit reaches 1
Capacities == (1..MaxCap) \cup {10}

TriggerThresholds == {0, 80}

InsertionThresholds == {2}

TrackingRatios == {[n |-> 2, d |-> 1]}

Policies == <<"OPT", "LRU", "ARC", "LARC", "NHL", "NH">>

(***************************************************************************)
(* Sequences as ordered dictionaries.                                      *)
(***************************************************************************)
Range(s) == {s[i] : i \in 1..Len(s)}

InSeq(s, k) == \E i \in 1..Len(s) : s[i] = k

\* OrderedDict.pop(k) / deque.remove(k): the sequence without k
Remove(s, k) == SelectSeq(s, LAMBDA x : x # k)

\* OrderedDict.move_to_end(k)
MoveToEnd(s, k) == Append(Remove(s, k), k)

\* str.strip() on the operation strings of the model
Strip(s) ==
  CASE s = " Read" -> "Read"
    [] s = " Write" -> "Write"
    [] OTHER -> s

\* str.lower() on the operation strings of the model
Lower(s) ==
  CASE s = "Read" -> "read"
    [] s = "Write" -> "write"
    [] s = "Trim" -> "trim"
    [] OTHER -> s

\* dictionaries as functions
Put(f, k, v) == [x \in (DOMAIN f) \cup {k} |-> IF x = k THEN v ELSE f[x]]

Del(f, k) == [x \in (DOMAIN f) \ {k} |-> f[x]]

EmptyDict == [x \in {} |-> 0]

\* the nine primary counters of a statistics table
StatsRecord(rr, rh, rm, wr, wh, wm, tr, th, tm) ==
  [read_req |-> rr, read_hit |-> rh, read_miss |-> rm,
   write_req |-> wr, write_hit |-> wh, write_miss |-> wm,
   total_req |-> tr, total_hit |-> th, total_miss |-> tm]

NoStats == [none |-> TRUE]

VARIABLES rows, sched, lru, opt, arc, larc, nhl, nh

vars == <<rows, sched, lru, opt, arc, larc, nhl, nh>>

Running(name) == sched # <<>> /\ Head(sched) = name

(***************************************************************************)
(* LRU (policies/LRU.py)                                                   *)
(***************************************************************************)
LRUInit(cap) ==
  [max_capacity |-> cap, cache_store |-> <<>>, idx |-> 0, ret |-> FALSE,
   read_requests |-> 0, read_misses |-> 0,
   write_requests |-> 0, write_misses |-> 0,
   pc |-> "run", stats |-> NoStats]

\* access_or_update_cache whose hit leaves the item where it is
access_or_update_cache_NoRefresh(store, cap, item) ==
  IF InSeq(store, item)
    THEN [store |-> store, ret |-> TRUE, err |-> FALSE]
    ELSE IF Len(store) >= cap
      THEN IF store = <<>>
        THEN [store |-> store, ret |-> FALSE, err |-> TRUE]
        ELSE [store |-> Append(Tail(store), item), ret |-> FALSE, err |-> FALSE]
      ELSE [store |-> Append(store, item), ret |-> FALSE, err |-> FALSE]

\* access_or_update_cache with the eviction left out
access_or_update_cache_NoEvict(store, cap, item) ==
  IF InSeq(store, item)
    THEN [store |-> MoveToEnd(store, item), ret |-> TRUE, err |-> FALSE]
    ELSE [store |-> Append(store, item), ret |-> FALSE, err |-> FALSE]

\* access_or_update_cache that evicts on a miss in a full store and then
\* forgets to insert the item
access_or_update_cache_NoInsertWhenFull(store, cap, item) ==
  IF InSeq(store, item)
    THEN [store |-> MoveToEnd(store, item), ret |-> TRUE, err |-> FALSE]
    ELSE IF Len(store) >= cap
      THEN IF store = <<>>
        THEN [store |-> store, ret |-> FALSE, err |-> TRUE]
        ELSE [store |-> Tail(store), ret |-> FALSE, err |-> FALSE]
      ELSE [store |-> Append(store, item), ret |-> FALSE, err |-> FALSE]

\* access_or_update_cache that evicts only when the store is over capacity
access_or_update_cache_OverCapacity(store, cap, item) ==
  IF InSeq(store, item)
    THEN [store |-> MoveToEnd(store, item), ret |-> TRUE, err |-> FALSE]
    ELSE IF Len(store) > cap
      THEN [store |-> Append(Tail(store), item), ret |-> FALSE, err |-> FALSE]
      ELSE [store |-> Append(store, item), ret |-> FALSE, err |-> FALSE]

\* LRUCache.access_or_update_cache: the new cache_store, the returned value,
\* and whether popitem raised on an empty store
access_or_update_cache(store, cap, item) ==
  IF InSeq(store, item)
    THEN [store |-> MoveToEnd(store, item), ret |-> TRUE, err |-> FALSE]
    ELSE IF Len(store) >= cap
      THEN IF store = <<>>
        THEN [store |-> store, ret |-> FALSE, err |-> TRUE]
        ELSE [store |-> Append(Tail(store), item), ret |-> FALSE, err |-> FALSE]
      ELSE [store |-> Append(store, item), ret |-> FALSE, err |-> FALSE]

\* LRUCache.collect_statistics
LRUCollectStatistics(reads, read_misses, writes, write_misses) ==
  LET total_requests == reads + writes
      total_misses == read_misses + write_misses
      total_hits == total_requests - total_misses
      read_hits == reads - read_misses
      write_hits == writes - write_misses
  IN StatsRecord(reads, read_hits, read_misses, writes, write_hits,
                 write_misses, total_requests, total_hits, total_misses)

\* one iteration of the loop of simulate_lru_policy
LRUStep ==
  /\ Running("LRU")
  /\ lru.pc = "run"
  /\ lru.idx < Len(rows)
  /\ LET row == rows[lru.idx + 1]
         r == access_or_update_cache(lru.cache_store, lru.max_capacity, row.offset)
     IN lru' = IF r.err
          THEN [lru EXCEPT !.pc = "failed"]
          ELSE IF row.op = "Read"
            THEN [lru EXCEPT !.cache_store = r.store, !.ret = r.ret,
                             !.idx = @ + 1,
                             !.read_requests = @ + 1,
                             !.read_misses = IF r.ret THEN @ ELSE @ + 1]
            ELSE [lru EXCEPT !.cache_store = r.store, !.ret = r.ret,
                             !.idx = @ + 1,
                             !.write_requests = @ + 1,
                             !.write_misses = IF r.ret THEN @ ELSE @ + 1]
  /\ UNCHANGED <<rows, sched, opt, arc, larc, nhl, nh>>

\* the end of simulate_lru_policy: the statistics are collected
LRUFinish ==
  /\ Running("LRU")
  /\ \/ lru.pc = "run" /\ lru.idx = Len(rows)
     \/ lru.pc = "failed"
  /\ lru' = IF lru.pc = "failed" THEN lru
            ELSE [lru EXCEPT !.pc = "done",
                   !.stats = LRUCollectStatistics(lru.read_requests, lru.read_misses,
                                                  lru.write_requests, lru.write_misses)]
  /\ sched' = Tail(sched)
  /\ UNCHANGED <<rows, opt, arc, larc, nhl, nh>>

(***************************************************************************)
(* Belady / OPT (policies/Belady.py)                                       *)
(***************************************************************************)
\* CacheSimulator.read_csv: the rows whose lower-cased operation is read or
\* write, as (page_offset, request_type) with the lower-cased operation
RECURSIVE read_csv(_)
read_csv(rs) ==
  IF rs = <<>> THEN <<>>
  ELSE LET request_type == Lower(Strip(Head(rs).op))
       IN IF request_type \in {"read", "write"}
            THEN <<[page |-> Head(rs).offset, op |-> request_type]>> \o read_csv(Tail(rs))
            ELSE read_csv(Tail(rs))

\* the reverse pass of precompute_next_use from 0-based index i down to 0
RECURSIVE PrecomputeLoop(_, _, _, _)
PrecomputeLoop(sequence, i, next_use, last_occurrence) ==
  IF i < 0 THEN next_use
  ELSE LET page == sequence[i + 1].page
           nu == IF page \in DOMAIN last_occurrence
                   THEN [next_use EXCEPT ![i + 1] = last_occurrence[page]]
                   ELSE next_use
       IN PrecomputeLoop(sequence, i - 1, nu, Put(last_occurrence, page, i))

\* precompute_next_use whose reverse pass keeps the first occurrence it
\* recorded for a page: the last request of the page instead of the next
precompute_next_use_KeepLast(sequence) ==
  [i \in 1..Len(sequence) |->
     LET later == {j \in (i + 1)..Len(sequence) : sequence[j].page = sequence[i].page}
     IN IF later = {} THEN INFINITY
        ELSE (CHOOSE j \in later : \A k \in later : k <= j) - 1]

\* precompute_next_use whose reverse pass never records an occurrence
precompute_next_use_NoRecord(sequence) == [i \in 1..Len(sequence) |-> INFINITY]

\* CacheSimulator.precompute_next_use: next_use[i + 1] is the 0-based index of
\* the next request of the page of 0-based position i, or INFINITY
precompute_next_use(sequence) ==
  PrecomputeLoop(sequence, Len(sequence) - 1,
                 [i \in 1..Len(sequence) |-> INFINITY], EmptyDict)

\* an order of the heap entries that looks at the page only
HeapLeq_ByPage(e, f) == e[2] <= f[2]

\* tuple order of the heap entries (-next_use, page)
HeapLeq(e, f) == e[1] < f[1] \/ (e[1] = f[1] /\ e[2] <= f[2])

\* a heap that returns its largest tuple: the nearest next use
HeapTop_Nearest(heap) ==
  CHOOSE e \in BagToSet(heap) : \A f \in BagToSet(heap) : HeapLeq(f, e)

\* the entry heapq.heappop returns: the smallest tuple
HeapTop(heap) ==
  CHOOSE e \in BagToSet(heap) : \A f \in BagToSet(heap) : HeapLeq(e, f)

heappush(heap, e) == heap (+) SetToBag({e})

heappop(heap) == heap (-) SetToBag({HeapTop(heap)})

\* a popped entry taken as the victim without the validity test
ValidEntry_Always(c, farthest_page, farthest_nu) == TRUE

\* the validity test of a popped entry (line 52)
ValidEntry(c, farthest_page, farthest_nu) ==
  /\ farthest_page \in c.cache
  /\ (IF farthest_page \in DOMAIN c.page_next_use
        THEN c.page_next_use[farthest_page] ELSE -1) = farthest_nu

\* the eviction loop of access_page (lines 49-56): pops until a valid entry
\* is found or the heap is empty
RECURSIVE EvictLoop(_)
EvictLoop(c) ==
  IF BagToSet(c.heap) = {} THEN c
  ELSE LET top == HeapTop(c.heap)
           farthest_page == top[2]
           farthest_nu == -top[1]
           popped == [c EXCEPT !.heap = heappop(c.heap), !.pops = @ + 1]
       IN IF ValidEntry(c, farthest_page, farthest_nu)
            THEN [popped EXCEPT !.cache = @ \ {farthest_page},
                                !.page_next_use = Del(@, farthest_page),
                                !.evicted_page = farthest_page,
                                !.evicted_nu = farthest_nu]
            ELSE EvictLoop(popped)

\* access_page that pushes no heap entry on a hit
access_page_NoPushOnHit(c, page, next_use) ==
  IF page \in c.cache
    THEN [c EXCEPT !.page_next_use = Put(@, page, next_use),
                   !.ret = TRUE, !.evicted_page = "None",
                   !.evicted_nu = -1, !.pops = 0]
    ELSE LET c0 == [c EXCEPT !.ret = FALSE, !.evicted_page = "None",
                             !.evicted_nu = -1, !.pops = 0]
             c1 == IF Cardinality(c0.cache) >= c0.capacity THEN EvictLoop(c0) ELSE c0
         IN [c1 EXCEPT !.cache = @ \cup {page},
                       !.page_next_use = Put(@, page, next_use),
                       !.heap = heappush(@, <<-next_use, page>>)]

\* OptimalCache.access_page on the engine c = [capacity, cache, heap,
\* page_next_use]; ret and evicted_page are the two returned values,
\* evicted_nu the next-use value popped with the victim and pops the number
\* of heap entries popped by this call
access_page(c, page, next_use) ==
  IF page \in c.cache
    THEN [c EXCEPT !.page_next_use = Put(@, page, next_use),
                   !.heap = heappush(@, <<-next_use, page>>),
                   !.ret = TRUE, !.evicted_page = "None",
                   !.evicted_nu = -1, !.pops = 0]
    ELSE LET c0 == [c EXCEPT !.ret = FALSE, !.evicted_page = "None",
                             !.evicted_nu = -1, !.pops = 0]
             c1 == IF Cardinality(c0.cache) >= c0.capacity THEN EvictLoop(c0) ELSE c0
         IN [c1 EXCEPT !.cache = @ \cup {page},
                       !.page_next_use = Put(@, page, next_use),
                       !.heap = heappush(@, <<-next_use, page>>)]

\* OptimalCache.__init__
OptimalCache(capacity) ==
  [capacity |-> capacity, cache |-> {}, heap |-> EmptyBag,
   page_next_use |-> EmptyDict, seen_pages |-> {},
   ret |-> FALSE, evicted_page |-> "None", evicted_nu |-> -1, pops |-> 0]

OPTInit(cap) ==
  [cache_size |-> cap, engine |-> OptimalCache(cap),
   sequence |-> <<>>, next_use |-> <<>>, i |-> 0,
   total_hits |-> 0, total_misses |-> 0,
   read_hits |-> 0, read_misses |-> 0, write_hits |-> 0, write_misses |-> 0,
   pc |-> "load", stats |-> NoStats]

\* cache_simulator up to the call of simulate: read_csv, the test for an
\* empty sequence, and precompute_next_use
OPTLoad ==
  /\ Running("OPT")
  /\ opt.pc = "load"
  /\ LET sequence == read_csv(rows)
     IN opt' = IF sequence = <<>>
          THEN [opt EXCEPT !.pc = "skipped"]
          ELSE [opt EXCEPT !.sequence = sequence,
                           !.next_use = precompute_next_use(sequence),
                           !.pc = "run"]
  /\ UNCHANGED <<rows, sched, lru, arc, larc, nhl, nh>>

\* one iteration of the loop of CacheSimulator.simulate
OPTStep ==
  /\ Running("OPT")
  /\ opt.pc = "run"
  /\ opt.i < Len(opt.sequence)
  /\ LET page == opt.sequence[opt.i + 1].page
         req_type == opt.sequence[opt.i + 1].op
         nu == opt.next_use[opt.i + 1]
         is_hit == page \in opt.engine.cache
         e == access_page(opt.engine, page, nu)
     IN opt' = IF is_hit
          THEN [opt EXCEPT !.engine = e, !.i = @ + 1,
                           !.total_hits = @ + 1,
                           !.read_hits = IF req_type = "read" THEN @ + 1 ELSE @,
                           !.write_hits = IF req_type = "read" THEN @ ELSE @ + 1]
          ELSE [opt EXCEPT !.engine = e, !.i = @ + 1,
                           !.total_misses = @ + 1,
                           !.read_misses = IF req_type = "read" THEN @ + 1 ELSE @,
                           !.write_misses = IF req_type = "read" THEN @ ELSE @ + 1]
  /\ UNCHANGED <<rows, sched, lru, arc, larc, nhl, nh>>

\* the statistics dictionary of CacheSimulator.simulate (lines 163-184)
OPTStats(o) ==
  LET total_requests == Len(o.sequence)
      read_total == o.read_hits + o.read_misses
      write_total == o.write_hits + o.write_misses
  IN StatsRecord(read_total, o.read_hits, o.read_misses,
                 write_total, o.write_hits, o.write_misses,
                 total_requests, o.total_hits, o.total_misses)

\* the end of CacheSimulator.simulate, or the early return of cache_simulator
OPTFinish ==
  /\ Running("OPT")
  /\ \/ opt.pc = "run" /\ opt.i = Len(opt.sequence)
     \/ opt.pc = "skipped"
  /\ opt' = IF opt.pc = "skipped" THEN opt
            ELSE [opt EXCEPT !.pc = "done", !.stats = OPTStats(opt)]
  /\ sched' = Tail(sched)
  /\ UNCHANGED <<rows, lru, arc, larc, nhl, nh>>

(***************************************************************************)
(* ARC (policies/ARC.py)                                                   *)
(***************************************************************************)
\* load_sequence of ARC.py and LARC.py (without the time filter, which the
\* default arguments leave open): page = offset // 4096, the stripped
\* operation, and only the rows whose operation is "Read" or "Write"
RECURSIVE load_sequence(_)
load_sequence(rs) ==
  IF rs = <<>> THEN <<>>
  ELSE LET page == Head(rs).offset \div PageSize
           operation == Strip(Head(rs).op)
       IN IF operation \in {"Read", "Write"}
            THEN <<[page |-> page, op |-> operation]>> \o load_sequence(Tail(rs))
            ELSE load_sequence(Tail(rs))

Max(a, b) == IF a >= b THEN a ELSE b

Min(a, b) == IF a <= b THEN a ELSE b

\* the new p on a B1 ghost hit without the bound min(cache_size, ...)
AdaptB1_NoMin(c) == c.p + Max(1, Len(c.B2) \div Max(1, Len(c.B1)))

\* the new p on a B1 ghost hit (line 41)
AdaptB1(c) == Min(c.cache_size, c.p + Max(1, Len(c.B2) \div Max(1, Len(c.B1))))

\* the new p on a B2 ghost hit (line 45)
AdaptB2(c) == Max(0, c.p - Max(1, Len(c.B1) \div Max(1, Len(c.B2))))

\* a balancing step that demotes from T2 whatever p is
ARCBalance_FromT2(c) ==
  IF Len(c.T1) + Len(c.T2) > c.cache_size
    THEN IF c.T2 # <<>>
      THEN [c EXCEPT !.T2 = Tail(@), !.B2 = Append(@, Head(c.T2))]
      ELSE [c EXCEPT !.T1 = Tail(@), !.B1 = Append(@, Head(c.T1))]
    ELSE c

\* the balancing loop (lines 51-59); an iteration that finds its list empty
\* changes nothing, so the loop never ends: hung
RECURSIVE ARCBalance(_)
ARCBalance(c) ==
  IF Len(c.T1) + Len(c.T2) > c.cache_size
    THEN IF Len(c.T1) > c.p
      THEN IF c.T1 # <<>>
        THEN ARCBalance([c EXCEPT !.T1 = Tail(@), !.B1 = Append(@, Head(c.T1))])
        ELSE [c EXCEPT !.hung = TRUE]
      ELSE IF c.T2 # <<>>
        THEN ARCBalance([c EXCEPT !.T2 = Tail(@), !.B2 = Append(@, Head(c.T2))])
        ELSE [c EXCEPT !.hung = TRUE]
    ELSE c

\* a trimming step that drops from B2 whatever p is
ARCTrim_FromB2(c) ==
  IF Len(c.T1) + Len(c.T2) + Len(c.B1) + Len(c.B2) > 2 * c.cache_size
    THEN IF c.B2 # <<>>
      THEN [c EXCEPT !.B2 = Tail(@)]
      ELSE [c EXCEPT !.B1 = Tail(@)]
    ELSE c

\* the ghost trimming loop (lines 61-67)
RECURSIVE ARCTrim(_)
ARCTrim(c) ==
  IF c.hung THEN c
  ELSE IF Len(c.T1) + Len(c.T2) + Len(c.B1) + Len(c.B2) > 2 * c.cache_size
    THEN IF Len(c.B1) > c.p
      THEN IF c.B1 # <<>>
        THEN ARCTrim([c EXCEPT !.B1 = Tail(@)])
        ELSE [c EXCEPT !.hung = TRUE]
      ELSE IF c.B2 # <<>>
        THEN ARCTrim([c EXCEPT !.B2 = Tail(@)])
        ELSE [c EXCEPT !.hung = TRUE]
    ELSE c

\* process_request returning True on a B1 ghost hit
ARCProcessRequest_GhostHit(c, page) ==
  IF InSeq(c.T1, page) \/ InSeq(c.T2, page)
    THEN IF InSeq(c.T1, page)
      THEN [c EXCEPT !.T1 = Remove(@, page), !.T2 = Append(@, page), !.ret = TRUE]
      ELSE [c EXCEPT !.T2 = MoveToEnd(@, page), !.ret = TRUE]
    ELSE LET c1 ==
               IF InSeq(c.B1, page)
                 THEN [c EXCEPT !.p = AdaptB1(c), !.B1 = Remove(@, page),
                                !.T2 = Append(@, page), !.ret = TRUE]
               ELSE IF InSeq(c.B2, page)
                 THEN [c EXCEPT !.p = AdaptB2(c), !.B2 = Remove(@, page),
                                !.T2 = Append(@, page), !.ret = FALSE]
               ELSE [c EXCEPT !.T1 = Append(@, page), !.ret = FALSE]
         IN ARCTrim(ARCBalance(c1))

\* process_request leaving the key of a B1 ghost hit in B1
ARCProcessRequest_KeepGhost(c, page) ==
  IF InSeq(c.T1, page) \/ InSeq(c.T2, page)
    THEN IF InSeq(c.T1, page)
      THEN [c EXCEPT !.T1 = Remove(@, page), !.T2 = Append(@, page), !.ret = TRUE]
      ELSE [c EXCEPT !.T2 = MoveToEnd(@, page), !.ret = TRUE]
    ELSE LET c1 ==
               IF InSeq(c.B1, page)
                 THEN [c EXCEPT !.p = AdaptB1(c),
                                !.T2 = Append(@, page), !.ret = FALSE]
               ELSE IF InSeq(c.B2, page)
                 THEN [c EXCEPT !.p = AdaptB2(c), !.B2 = Remove(@, page),
                                !.T2 = Append(@, page), !.ret = FALSE]
               ELSE [c EXCEPT !.T1 = Append(@, page), !.ret = FALSE]
         IN ARCTrim(ARCBalance(c1))

\* ARCCache.process_request on the engine c; ret is the returned value
ARCProcessRequest(c, page) ==
  IF InSeq(c.T1, page) \/ InSeq(c.T2, page)
    THEN IF InSeq(c.T1, page)
      THEN [c EXCEPT !.T1 = Remove(@, page), !.T2 = Append(@, page), !.ret = TRUE]
      ELSE [c EXCEPT !.T2 = MoveToEnd(@, page), !.ret = TRUE]
    ELSE LET c1 ==
               IF InSeq(c.B1, page)
                 THEN [c EXCEPT !.p = AdaptB1(c), !.B1 = Remove(@, page),
                                !.T2 = Append(@, page), !.ret = FALSE]
               ELSE IF InSeq(c.B2, page)
                 THEN [c EXCEPT !.p = AdaptB2(c), !.B2 = Remove(@, page),
                                !.T2 = Append(@, page), !.ret = FALSE]
               ELSE [c EXCEPT !.T1 = Append(@, page), !.ret = FALSE]
         IN ARCTrim(ARCBalance(c1))

\* ARCCache.__init__
ARCCache(cache_size) ==
  [cache_size |-> cache_size, T1 |-> <<>>, T2 |-> <<>>, B1 |-> <<>>, B2 |-> <<>>,
   p |-> 0, ret |-> FALSE, hung |-> FALSE]

\* the counters of the simulate method of ARC.py and LARC.py
SimCounters ==
  [read_requests |-> 0, write_requests |-> 0, read_hits |-> 0, write_hits |-> 0,
   read_misses |-> 0, write_misses |-> 0]

ARCInit(cap) ==
  [engine |-> ARCCache(cap), dataset |-> <<>>, idx |-> 0, n |-> SimCounters,
   pc |-> "load", stats |-> NoStats]

\* the counters after one iteration of the loop of simulate (ARC.py lines
\* 83-95, LARC.py lines 60-72) on a request that process_request was called on
SimCount(n, operation, hit) ==
  IF operation = "Read"
    THEN [n EXCEPT !.read_requests = @ + 1,
                   !.read_hits = IF hit THEN @ + 1 ELSE @,
                   !.read_misses = IF hit THEN @ ELSE @ + 1]
    ELSE [n EXCEPT !.write_requests = @ + 1,
                   !.write_hits = IF hit THEN @ + 1 ELSE @,
                   !.write_misses = IF hit THEN @ ELSE @ + 1]

\* the dictionary simulate returns (ARC.py lines 97-110, LARC.py lines 74-87)
SimStats(n) ==
  StatsRecord(n.read_requests, n.read_hits, n.read_misses,
              n.write_requests, n.write_hits, n.write_misses,
              n.read_requests + n.write_requests,
              n.read_hits + n.write_hits,
              n.read_misses + n.write_misses)

\* run_simulation up to the call of simulate
ARCLoad ==
  /\ Running("ARC")
  /\ arc.pc = "load"
  /\ LET sequence == load_sequence(rows)
     IN arc' = IF sequence = <<>>
          THEN [arc EXCEPT !.pc = "skipped"]
          ELSE [arc EXCEPT !.dataset = sequence, !.pc = "run"]
  /\ UNCHANGED <<rows, sched, lru, opt, larc, nhl, nh>>

\* one iteration of the loop of ARCCache.simulate
ARCStep ==
  /\ Running("ARC")
  /\ arc.pc = "run"
  /\ arc.idx < Len(arc.dataset)
  /\ LET page == arc.dataset[arc.idx + 1].page
         operation == arc.dataset[arc.idx + 1].op
         e == ARCProcessRequest(arc.engine, page)
     IN arc' = IF operation \in {"Read", "Write"}
          THEN IF e.hung
            THEN [arc EXCEPT !.engine = e, !.pc = "hung"]
            ELSE [arc EXCEPT !.engine = e, !.idx = @ + 1,
                             !.n = SimCount(@, operation, e.ret)]
          ELSE [arc EXCEPT !.idx = @ + 1]
  /\ UNCHANGED <<rows, sched, lru, opt, larc, nhl, nh>>

\* the end of ARCCache.simulate, or the early return of run_simulation
ARCFinish ==
  /\ Running("ARC")
  /\ \/ arc.pc = "run" /\ arc.idx = Len(arc.dataset)
     \/ arc.pc = "skipped"
  /\ arc' = IF arc.pc = "skipped" THEN arc
            ELSE [arc EXCEPT !.pc = "done", !.stats = SimStats(arc.n)]
  /\ sched' = Tail(sched)
  /\ UNCHANGED <<rows, lru, opt, larc, nhl, nh>>

(***************************************************************************)
(* LARC (policies/LARC.py)                                                 *)
(* recent_cache_limit is a real number, kept as the fraction n/d in lowest *)
(* terms with d > 0.                                                       *)
(***************************************************************************)
RECURSIVE GCD(_, _)
GCD(a, b) == IF b = 0 THEN a ELSE GCD(b, a % b)

Abs(a) == IF a < 0 THEN -a ELSE a

\* the fraction a/b (b # 0) in lowest terms with a positive denominator
Rat(a, b) ==
  LET g == GCD(Abs(a), Abs(b))
      sgn == IF b < 0 THEN -1 ELSE 1
  IN [n |-> sgn * (a \div g), d |-> sgn * (b \div g)]

RatLeq(x, y) == x.n * y.d <= y.n * x.d

RatMax(x, y) == IF RatLeq(y, x) THEN x ELSE y

RatMin(x, y) == IF RatLeq(x, y) THEN x ELSE y

\* the new recent_cache_limit on a cache hit (line 33), for a nonzero divisor:
\* max(0.1 * c, limit - c / (c - limit))
LimitOnHit(cache_size, limit) ==
  LET num == cache_size * limit.d - limit.n
  IN RatMax(Rat(cache_size, 10),
            Rat(limit.n * num - cache_size * limit.d * limit.d, limit.d * num))

\* the new recent_cache_limit on a recent_cache hit without min(0.9 * c, ...)
LimitOnRecentHit_NoMin(cache_size, limit) ==
  Rat(limit.n * limit.n + cache_size * limit.d * limit.d, limit.d * limit.n)

\* the new recent_cache_limit on a recent_cache hit (line 36), for a nonzero
\* divisor: min(0.9 * c, limit + c / limit)
LimitOnRecentHit(cache_size, limit) ==
  RatMin(Rat(9 * cache_size, 10),
         Rat(limit.n * limit.n + cache_size * limit.d * limit.d, limit.d * limit.n))

\* process_request whose admission never drops a key of cache
LARCProcessRequest_NoDrop(c, page) ==
  IF InSeq(c.cache, page)
    THEN IF c.cache_size * c.recent_cache_limit.d - c.recent_cache_limit.n = 0
      THEN [c EXCEPT !.cache = MoveToEnd(@, page), !.err = TRUE]
      ELSE [c EXCEPT !.cache = MoveToEnd(@, page),
                     !.recent_cache_limit = LimitOnHit(c.cache_size, @),
                     !.ret = TRUE]
  ELSE IF InSeq(c.recent_cache, page)
    THEN IF c.recent_cache_limit.n = 0
      THEN [c EXCEPT !.err = TRUE]
      ELSE [c EXCEPT !.recent_cache_limit = LimitOnRecentHit(c.cache_size, @),
                     !.recent_cache = Remove(@, page),
                     !.cache = Append(@, page),
                     !.ret = FALSE]
  ELSE LET recent == Append(c.recent_cache, page)
       IN [c EXCEPT !.recent_cache =
                       IF Len(recent) * c.recent_cache_limit.d > c.recent_cache_limit.n
                         THEN Tail(recent) ELSE recent,
                    !.ret = FALSE]

\* process_request whose new-key branch never drops a key of recent_cache
LARCProcessRequest_NoTrim(c, page) ==
  IF InSeq(c.cache, page)
    THEN IF c.cache_size * c.recent_cache_limit.d - c.recent_cache_limit.n = 0
      THEN [c EXCEPT !.cache = MoveToEnd(@, page), !.err = TRUE]
      ELSE [c EXCEPT !.cache = MoveToEnd(@, page),
                     !.recent_cache_limit = LimitOnHit(c.cache_size, @),
                     !.ret = TRUE]
  ELSE IF InSeq(c.recent_cache, page)
    THEN IF c.recent_cache_limit.n = 0
      THEN [c EXCEPT !.err = TRUE]
      ELSE LET cache == Append(c.cache, page)
           IN [c EXCEPT !.recent_cache_limit = LimitOnRecentHit(c.cache_size, @),
                        !.recent_cache = Remove(@, page),
                        !.cache = IF Len(cache) > c.cache_size THEN Tail(cache) ELSE cache,
                        !.ret = FALSE]
  ELSE [c EXCEPT !.recent_cache = Append(@, page), !.ret = FALSE]

\* LARCCache.process_request on the engine c; ret is the returned value and
\* err tells that a division by zero was raised
LARCProcessRequest(c, page) ==
  IF InSeq(c.cache, page)
    THEN IF c.cache_size * c.recent_cache_limit.d - c.recent_cache_limit.n = 0
      THEN [c EXCEPT !.cache = MoveToEnd(@, page), !.err = TRUE]
      ELSE [c EXCEPT !.cache = MoveToEnd(@, page),
                     !.recent_cache_limit = LimitOnHit(c.cache_size, @),
                     !.ret = TRUE]
  ELSE IF InSeq(c.recent_cache, page)
    THEN IF c.recent_cache_limit.n = 0
      THEN [c EXCEPT !.err = TRUE]
      ELSE LET cache == Append(c.cache, page)
           IN [c EXCEPT !.recent_cache_limit = LimitOnRecentHit(c.cache_size, @),
                        !.recent_cache = Remove(@, page),
                        !.cache = IF Len(cache) > c.cache_size THEN Tail(cache) ELSE cache,
                        !.ret = FALSE]
  ELSE LET recent == Append(c.recent_cache, page)
       IN [c EXCEPT !.recent_cache =
                       IF Len(recent) * c.recent_cache_limit.d > c.recent_cache_limit.n
                         THEN Tail(recent) ELSE recent,
                    !.ret = FALSE]

\* LARCCache.__init__
LARCCache(cache_size) ==
  [cache_size |-> cache_size, cache |-> <<>>, recent_cache |-> <<>>,
   recent_cache_limit |-> Rat(cache_size, 10), ret |-> FALSE, err |-> FALSE]

LARCInit(cap) ==
  [engine |-> LARCCache(cap), dataset |-> <<>>, idx |-> 0, n |-> SimCounters,
   pc |-> "load", stats |-> NoStats]

\* run_simulation up to the call of simulate
LARCLoad ==
  /\ Running("LARC")
  /\ larc.pc = "load"
  /\ LET sequence == load_sequence(rows)
     IN larc' = IF sequence = <<>>
          THEN [larc EXCEPT !.pc = "skipped"]
          ELSE [larc EXCEPT !.dataset = sequence, !.pc = "run"]
  /\ UNCHANGED <<rows, sched, lru, opt, arc, nhl, nh>>

\* one iteration of the loop of LARCCache.simulate
LARCStep ==
  /\ Running("LARC")
  /\ larc.pc = "run"
  /\ larc.idx < Len(larc.dataset)
  /\ LET page == larc.dataset[larc.idx + 1].page
         operation == larc.dataset[larc.idx + 1].op
         e == LARCProcessRequest(larc.engine, page)
     IN larc' = IF operation \in {"Read", "Write"}
          THEN IF e.err
            THEN [larc EXCEPT !.engine = e, !.pc = "failed"]
            ELSE [larc EXCEPT !.engine = e, !.idx = @ + 1,
                              !.n = SimCount(@, operation, e.ret)]
          ELSE [larc EXCEPT !.idx = @ + 1]
  /\ UNCHANGED <<rows, sched, lru, opt, arc, nhl, nh>>

\* the end of LARCCache.simulate, or the early return of run_simulation
LARCFinish ==
  /\ Running("LARC")
  /\ \/ larc.pc = "run" /\ larc.idx = Len(larc.dataset)
     \/ larc.pc \in {"skipped", "failed"}
  /\ larc' = IF larc.pc # "run" THEN larc
             ELSE [larc EXCEPT !.pc = "done", !.stats = SimStats(larc.n)]
  /\ sched' = Tail(sched)
  /\ UNCHANGED <<rows, lru, opt, arc, nhl, nh>>

(***************************************************************************)
(* N-Hit with lowest-count eviction (policies/N-Hit.py)                    *)
(***************************************************************************)
\* tuple order of the entries (nhit, insertion_counter, item) of sorted_items
TupleLess(a, b) ==
  \/ a[1] < b[1]
  \/ a[1] = b[1] /\ a[2] < b[2]
  \/ a[1] = b[1] /\ a[2] = b[2] /\ a[3] < b[3]

\* an index that keeps its entries in the order they were added
SortedAdd_Append(sl, e) == Append(sl, e)

\* SortedList.add: the entry is placed after the entries smaller than it
SortedAdd(sl, e) ==
  SelectSeq(sl, LAMBDA x : TupleLess(x, e)) \o <<e>>
    \o SelectSeq(sl, LAMBDA x : ~TupleLess(x, e))

\* _evict that reads the first entry of sorted_items without removing it
NHitEvict_KeepIndex(c) ==
  IF Len(c.sorted_items) = 0 THEN c
  ELSE LET victim_item == Head(c.sorted_items)[3]
       IN IF victim_item \in DOMAIN c.cache
            THEN [c EXCEPT !.cache = Del(@, victim_item), !.evicted = victim_item]
            ELSE [c EXCEPT !.err = TRUE]

\* NHitCache._evict
NHitEvict(c) ==
  IF Len(c.sorted_items) = 0 THEN c
  ELSE LET victim_item == Head(c.sorted_items)[3]
       IN IF victim_item \in DOMAIN c.cache
            THEN [c EXCEPT !.sorted_items = Tail(@), !.cache = Del(@, victim_item),
                           !.evicted = victim_item]
            ELSE [c EXCEPT !.sorted_items = Tail(@), !.err = TRUE]

\* access that counts nothing
NHitAccess_NoCount(c, item) == c

\* NHitCache.access
NHitAccess(c, item) ==
  [c EXCEPT !.tracking =
     Put(@, item, (IF item \in DOMAIN c.tracking THEN c.tracking[item] ELSE 0) + 1)]

\* NHitCache.promote
NHitPromote(c, item) ==
  LET c1 == IF Cardinality(DOMAIN c.cache) >= c.capacity THEN NHitEvict(c) ELSE c
      nhit == IF item \in DOMAIN c1.tracking THEN c1.tracking[item] ELSE 0
  IN IF c1.err THEN c1
     ELSE [c1 EXCEPT !.cache = Put(@, item, nhit),
                     !.insertion_counter = @ + 1,
                     !.sorted_items = SortedAdd(@, <<nhit, c1.insertion_counter + 1, item>>),
                     !.promoted = TRUE]

\* the occupancy test with the comparison turned round
OccupancyAtMost_AtLeast(occupancy, capacity, trigger_threshold) ==
  100 * occupancy >= trigger_threshold * capacity

\* occupancy_percent <= trigger_threshold, where occupancy_percent is
\* 100.0 * occupancy / capacity and capacity is not zero
OccupancyAtMost(occupancy, capacity, trigger_threshold) ==
  IF capacity > 0
    THEN 100 * occupancy <= trigger_threshold * capacity
    ELSE 100 * occupancy >= trigger_threshold * capacity

\* should_promote that looks at the access count only
NHitShouldPromote_CountOnly(c, item) ==
  (IF item \in DOMAIN c.tracking THEN c.tracking[item] ELSE 0) >= c.insertion_threshold

\* NHitCache.should_promote, for a capacity that is not zero
NHitShouldPromote(c, item) ==
  IF OccupancyAtMost(Cardinality(DOMAIN c.cache), c.capacity, c.trigger_threshold)
    THEN TRUE
    ELSE (IF item \in DOMAIN c.tracking THEN c.tracking[item] ELSE 0)
           >= c.insertion_threshold

\* NHitCache.__init__; evicted, promoted and err record what the last request did
NHitCache(capacity, trigger_threshold, insertion_threshold) ==
  [capacity |-> capacity, trigger_threshold |-> trigger_threshold,
   insertion_threshold |-> insertion_threshold,
   cache |-> EmptyDict, tracking |-> EmptyDict, sorted_items |-> <<>>,
   insertion_counter |-> 0, evicted |-> "None", promoted |-> FALSE, err |-> FALSE]

NHInit(cap, tt, it) ==
  [engine |-> NHitCache(cap, tt, it), idx |-> 0, ret |-> FALSE,
   total_requests |-> 0, read_hits |-> 0, read_misses |-> 0,
   write_hits |-> 0, write_misses |-> 0, cold_misses |-> 0,
   tracked_access |-> {}, pc |-> "run", stats |-> NoStats]

\* the miss branch of the loop of simulate_nhit (lines 116-118) on the engine
NHitMiss(c, offset) ==
  LET c0 == [c EXCEPT !.evicted = "None", !.promoted = FALSE]
      c1 == NHitAccess(c0, offset)
  IN IF c1.capacity = 0 THEN [c1 EXCEPT !.err = TRUE]
     ELSE IF NHitShouldPromote(c1, offset) THEN NHitPromote(c1, offset) ELSE c1

\* a loop body whose hit branch counts the access in tracking
NHLoopBody_CountHits(d, row) ==
  LET offset == row.offset
      operation == row.op
  IN IF offset \in DOMAIN d.engine.cache
       THEN [d EXCEPT !.idx = @ + 1, !.ret = TRUE,
                      !.total_requests = @ + 1,
                      !.engine = [NHitAccess(@, offset) EXCEPT
                                    !.evicted = "None", !.promoted = FALSE],
                      !.read_hits = IF operation = "Read" THEN @ + 1 ELSE @,
                      !.write_hits = IF operation = "Read" THEN @ ELSE @ + 1]
       ELSE LET e == NHitMiss(d.engine, offset)
            IN [d EXCEPT !.idx = IF e.err THEN @ ELSE @ + 1, !.ret = FALSE,
                      !.pc = IF e.err THEN "failed" ELSE @,
                      !.total_requests = @ + 1,
                      !.engine = e,
                      !.read_misses = IF operation = "Read" THEN @ + 1 ELSE @,
                      !.write_misses = IF operation = "Read" THEN @ ELSE @ + 1,
                      !.cold_misses = IF offset \in d.tracked_access THEN @ ELSE @ + 1,
                      !.tracked_access = @ \cup {offset}]

\* the body of the loop of simulate_nhit (lines 100-117) on the driver state d
\* for one row of the trace
NHLoopBody(d, row) ==
  LET offset == row.offset
      operation == row.op
  IN IF offset \in DOMAIN d.engine.cache
       THEN [d EXCEPT !.idx = @ + 1, !.ret = TRUE,
                      !.total_requests = @ + 1,
                      !.engine = [@ EXCEPT !.evicted = "None", !.promoted = FALSE],
                      !.read_hits = IF operation = "Read" THEN @ + 1 ELSE @,
                      !.write_hits = IF operation = "Read" THEN @ ELSE @ + 1]
       ELSE LET e == NHitMiss(d.engine, offset)
            IN [d EXCEPT !.idx = IF e.err THEN @ ELSE @ + 1, !.ret = FALSE,
                      !.pc = IF e.err THEN "failed" ELSE @,
                      !.total_requests = @ + 1,
                      !.engine = e,
                      !.read_misses = IF operation = "Read" THEN @ + 1 ELSE @,
                      !.write_misses = IF operation = "Read" THEN @ ELSE @ + 1,
                      !.cold_misses = IF offset \in d.tracked_access THEN @ ELSE @ + 1,
                      !.tracked_access = @ \cup {offset}]

\* one iteration of the loop of simulate_nhit
NHStep ==
  /\ Running("NH")
  /\ nh.pc = "run"
  /\ nh.idx < Len(rows)
  /\ nh' = NHLoopBody(nh, rows[nh.idx + 1])
  /\ UNCHANGED <<rows, sched, lru, opt, arc, larc, nhl>>

\* the whole loop of simulate_nhit over the rows rs, from the driver state d
RECURSIVE NHRun(_, _)
NHRun(d, rs) ==
  IF d.pc # "run" \/ d.idx >= Len(rs) THEN d
  ELSE NHRun(NHLoopBody(d, rs[d.idx + 1]), rs)

\* collect_statistics of N-Hit.py
NHCollectStatistics(reads, read_misses, writes, write_misses, cold_misses) ==
  LET total_requests == reads + writes
      total_misses == read_misses + write_misses
      total_hits == total_requests - total_misses
      read_hits == reads - read_misses
      write_hits == writes - write_misses
  IN [read_req |-> reads, read_hit |-> read_hits, read_miss |-> read_misses,
      write_req |-> writes, write_hit |-> write_hits, write_miss |-> write_misses,
      total_req |-> total_requests, total_hit |-> total_hits,
      total_miss |-> total_misses, cold_misses |-> cold_misses]

\* the end of simulate_nhit (lines 120-125)
NHFinish ==
  /\ Running("NH")
  /\ \/ nh.pc = "run" /\ nh.idx = Len(rows)
     \/ nh.pc = "failed"
  /\ nh' = IF nh.pc = "failed" THEN nh
           ELSE [nh EXCEPT !.pc = "done",
                  !.stats = NHCollectStatistics(nh.read_hits + nh.read_misses, nh.read_misses,
                                                nh.write_hits + nh.write_misses, nh.write_misses,
                                                nh.cold_misses)]
  /\ sched' = Tail(sched)
  /\ UNCHANGED <<rows, lru, opt, arc, larc, nhl>>

(***************************************************************************)
(* N-Hit with LRU eviction (LRU&N-Hit.py)                                  *)
(***************************************************************************)
\* LRUCache.access of LRU&N-Hit.py
NHLAccess(cache, key) == IF InSeq(cache, key) THEN MoveToEnd(cache, key) ELSE cache

\* LRUCache.insert of LRU&N-Hit.py
NHLInsert(cache, capacity, key) ==
  LET c1 == IF InSeq(cache, key) THEN MoveToEnd(cache, key) ELSE Append(cache, key)
  IN IF Len(c1) > capacity THEN Tail(c1) ELSE c1

\* int(x) of a fraction x = a/b with b > 0: truncation towards zero
IntOf(a, b) == IF a >= 0 THEN a \div b ELSE -((-a) \div b)

\* NHitPolicy.__init__; tracking_ratio is the fraction tracking_ratio.n / .d
NHitPolicy(cache_capacity, trigger_threshold, N, tracking_ratio) ==
  [trigger_threshold |-> trigger_threshold, N |-> N,
   cache_capacity |-> cache_capacity,
   max_tracked_items |-> IntOf(tracking_ratio.n * cache_capacity, tracking_ratio.d),
   access_counts |-> EmptyDict, tracking_queue |-> <<>>, err |-> FALSE]

\* NHitPolicy.should_promote, for a cache_capacity that is not zero
NHLShouldPromote(t, item, is_cache_hit, current_cache_occupancy) ==
  IF OccupancyAtMost(current_cache_occupancy, t.cache_capacity, t.trigger_threshold)
       \/ is_cache_hit
    THEN TRUE
    ELSE (IF item \in DOMAIN t.access_counts THEN t.access_counts[item] ELSE 0) >= t.N

\* record_access that never forgets the oldest tracked item
record_access_NoForget(t, item) ==
  IF item \in DOMAIN t.access_counts
    THEN [t EXCEPT !.access_counts[item] = @ + 1]
    ELSE [t EXCEPT !.access_counts = Put(@, item, 1),
                   !.tracking_queue = Append(@, item)]

\* NHitPolicy.record_access; err tells that popleft raised on an empty deque
\* or that the oldest item had no count to delete
record_access(t, item) ==
  IF item \in DOMAIN t.access_counts
    THEN [t EXCEPT !.access_counts[item] = @ + 1]
    ELSE IF Cardinality(DOMAIN t.access_counts) >= t.max_tracked_items
      THEN IF t.tracking_queue = <<>> \/ Head(t.tracking_queue) \notin DOMAIN t.access_counts
        THEN [t EXCEPT !.err = TRUE]
        ELSE [t EXCEPT !.access_counts = Put(Del(@, Head(t.tracking_queue)), item, 1),
                       !.tracking_queue = Append(Tail(@), item)]
      ELSE [t EXCEPT !.access_counts = Put(@, item, 1),
                     !.tracking_queue = Append(@, item)]

\* deque.remove(x): the first occurrence of x is removed
RECURSIVE RemoveFirst(_, _)
RemoveFirst(s, x) ==
  IF s = <<>> THEN s
  ELSE IF Head(s) = x THEN Tail(s)
  ELSE <<Head(s)>> \o RemoveFirst(Tail(s), x)

\* remove_from_tracking that leaves the promoted item in the tracker
remove_from_tracking_Keep(t, item) == t

\* NHitPolicy.remove_from_tracking
remove_from_tracking(t, item) ==
  IF item \in DOMAIN t.access_counts
    THEN [t EXCEPT !.access_counts = Del(@, item),
                   !.tracking_queue = RemoveFirst(@, item)]
    ELSE t

NHLInit(cap, tt, n, tr) ==
  [capacity |-> cap, cache |-> <<>>, policy |-> NHitPolicy(cap, tt, n, tr),
   idx |-> 0, ret |-> FALSE, promoted |-> FALSE,
   read_requests |-> 0, write_requests |-> 0, read_hits |-> 0, write_hits |-> 0,
   pc |-> "run", stats |-> NoStats]

\* the miss branch of the loop of simulate_nhit_lru (lines 182-184, 191-193)
\* on the driver state h whose tracker has recorded the access
NHLMiss(h, item) ==
  IF h.policy.cache_capacity = 0
    THEN [h EXCEPT !.pc = "failed", !.policy = [@ EXCEPT !.err = TRUE]]
  ELSE IF NHLShouldPromote(h.policy, item, FALSE, Len(h.cache))
    THEN [h EXCEPT !.cache = NHLInsert(@, h.capacity, item),
                   !.policy = remove_from_tracking(@, item),
                   !.promoted = TRUE]
    ELSE h

\* the body of the loop of simulate_nhit_lru (lines 166-193) on the driver
\* state d for one row of the trace
NHLLoopBody(d, row) ==
  LET item == row.offset
      operation_type == Lower(Strip(row.op))
      t == record_access(d.policy, item)
      is_hit == InSeq(d.cache, item)
      h == [d EXCEPT !.policy = t, !.ret = is_hit, !.promoted = FALSE]
  IN IF t.err THEN [h EXCEPT !.pc = "failed"]
     ELSE IF operation_type = "read"
       THEN LET h1 == [h EXCEPT !.read_requests = @ + 1]
            IN IF is_hit
                 THEN [h1 EXCEPT !.read_hits = @ + 1,
                                 !.cache = NHLAccess(@, item), !.idx = @ + 1]
                 ELSE LET h2 == NHLMiss(h1, item)
                      IN IF h2.pc = "failed" THEN h2 ELSE [h2 EXCEPT !.idx = @ + 1]
     ELSE IF operation_type = "write"
       THEN LET h1 == [h EXCEPT !.write_requests = @ + 1]
            IN IF is_hit
                 THEN [h1 EXCEPT !.write_hits = @ + 1,
                                 !.cache = NHLAccess(@, item), !.idx = @ + 1]
                 ELSE LET h2 == NHLMiss(h1, item)
                      IN IF h2.pc = "failed" THEN h2 ELSE [h2 EXCEPT !.idx = @ + 1]
     ELSE [h EXCEPT !.idx = @ + 1]

\* one iteration of the loop of simulate_nhit_lru
NHLStep ==
  /\ Running("NHL")
  /\ nhl.pc = "run"
  /\ nhl.idx < Len(rows)
  /\ nhl' = NHLLoopBody(nhl, rows[nhl.idx + 1])
  /\ UNCHANGED <<rows, sched, lru, opt, arc, larc, nh>>

\* the whole loop of simulate_nhit_lru over the rows rs, from the driver state d
RECURSIVE NHLRun(_, _)
NHLRun(d, rs) ==
  IF d.pc # "run" \/ d.idx >= Len(rs) THEN d
  ELSE NHLRun(NHLLoopBody(d, rs[d.idx + 1]), rs)

\* the table simulate_nhit_lru prints (lines 195-207): seven counters, no
\* read misses and no write misses
NHLStats(h) ==
  LET total_requests == h.read_requests + h.write_requests
      total_hits == h.read_hits + h.write_hits
      total_misses == total_requests - total_hits
  IN [read_req |-> h.read_requests, read_hit |-> h.read_hits,
      write_req |-> h.write_requests, write_hit |-> h.write_hits,
      total_req |-> total_requests, total_hit |-> total_hits,
      total_miss |-> total_misses]

\* the end of simulate_nhit_lru
NHLFinish ==
  /\ Running("NHL")
  /\ \/ nhl.pc = "run" /\ nhl.idx = Len(rows)
     \/ nhl.pc = "failed"
  /\ nhl' = IF nhl.pc = "failed" THEN nhl
            ELSE [nhl EXCEPT !.pc = "done", !.stats = NHLStats(nhl)]
  /\ sched' = Tail(sched)
  /\ UNCHANGED <<rows, lru, opt, arc, larc, nh>>

(***************************************************************************)
(* The runs: every driver over the same rows with the same capacity.       *)
(***************************************************************************)
\* the traces of at most n rows with the given operations
TracesOf(n, ops) == UNION {[1..m -> [offset : Offsets, op : ops]] : m \in 0..n}

\* the drivers named in policies are run in that order over one trace of
\* traces; every policy object is constructed with the same capacity of caps
InitWith(traces, caps, tts, policies) ==
  /\ rows \in traces
  /\ sched = policies
  /\ \E cap \in caps :
       /\ lru = LRUInit(cap)
       /\ opt = OPTInit(cap)
       /\ arc = ARCInit(cap)
       /\ larc = LARCInit(cap)
       /\ \E tt \in tts, it \in InsertionThresholds :
            /\ nh = NHInit(cap, tt, it)
            /\ \E tr \in TrackingRatios : nhl = NHLInit(cap, tt, it, tr)

OPTNext == OPTLoad \/ OPTStep \/ OPTFinish

LRUNext == LRUStep \/ LRUFinish

ARCNext == ARCLoad \/ ARCStep \/ ARCFinish

LARCNext == LARCLoad \/ LARCStep \/ LARCFinish

NHLNext == NHLStep \/ NHLFinish

NHNext == NHStep \/ NHFinish

\* all six drivers on traces of reads and writes
Init == InitWith(TracesOf(MaxLen, Ops), Capacities, TriggerThresholds, Policies)

Next == OPTNext \/ LRUNext \/ ARCNext \/ LARCNext \/ NHLNext \/ NHNext

Spec == Init /\ [][Next]_vars

\* all six drivers on longer traces of reads only
InitReads == InitWith(TracesOf(MaxLen + 1, {"Read"}), Capacities, TriggerThresholds, Policies)

SpecReads == InitReads /\ [][Next]_vars

\* the ARC driver alone on long traces of reads
DeepLen == MaxLen + 3

InitARC == InitWith(TracesOf(DeepLen, {"Read"}), 1..MaxCap, {80}, <<"ARC">>)

SpecARC == InitARC /\ [][ARCNext]_vars

\* the LARC driver alone on long traces of reads, with the capacity at which
\* recent_cache holds keys
InitLARC == InitWith(TracesOf(DeepLen, {"Read"}), {10}, {80}, <<"LARC">>)

SpecLARC == InitLARC /\ [][LARCNext]_vars

\* OptimalCache.access_page called with any page and any next_use
NextUses == (1..MaxLen) \cup {INFINITY}

InitAccessPage == InitWith({<<>>}, 1..MaxCap, {80}, <<>>)

AccessPage ==
  /\ sched = <<>>
  /\ opt.pc = "load"
  /\ opt.i < MaxLen
  /\ \E page \in Offsets, next_use \in NextUses :
       opt' = [opt EXCEPT !.engine = access_page(@, page, next_use), !.i = @ + 1]
  /\ UNCHANGED <<rows, sched, lru, arc, larc, nhl, nh>>

SpecAccessPage == InitAccessPage /\ [][AccessPage]_vars

\* the two N-Hit drivers alone on longer traces of reads
InitNHit ==
  InitWith(TracesOf(MaxLen + 2, {"Read"}), 1..MaxCap, TriggerThresholds, <<"NHL", "NH">>)

NHitNext == NHLNext \/ NHNext

SpecNHit == InitNHit /\ [][NHitNext]_vars

\* values of trigger_threshold and of N / insertion_threshold a run is
\* compared with
ThresholdRange == {0, 80, 100}

NRange == {1, 2, 3}

\* the Belady driver alone on long traces of reads
InitOPT == InitWith(TracesOf(DeepLen, {"Read"}), 1..MaxCap, {80}, <<"OPT">>)

SpecOPT == InitOPT /\ [][OPTNext]_vars

\* the LRU driver alone on long traces of reads
InitLRU == InitWith(TracesOf(DeepLen, {"Read"}), 1..MaxCap, {80}, <<"LRU">>)

SpecLRU == InitLRU /\ [][LRUNext]_vars

\* all six drivers constructed with any capacity, valid or not, and any
\* values of the N-Hit knobs
AnyCapacities == {-1, 0} \cup (1..MaxCap)

AnyThresholds == {-10, 80, 150}

RatioRange == {[n |-> 0, d |-> 1], [n |-> 1, d |-> 2], [n |-> 2, d |-> 1]}

InitParams ==
  /\ rows \in TracesOf(MaxLen, {"Read"})
  /\ sched = Policies
  /\ \E cap \in AnyCapacities :
       /\ lru = LRUInit(cap)
       /\ opt = OPTInit(cap)
       /\ arc = ARCInit(cap)
       /\ larc = LARCInit(cap)
       /\ \E tt \in AnyThresholds, n \in NRange, tr \in RatioRange :
            /\ nh = NHInit(cap, tt, n)
            /\ nhl = NHLInit(cap, tt, n, tr)

SpecParams == InitParams /\ [][Next]_vars

\* all six drivers on traces whose rows may carry an operation that is
\* neither Read nor Write
AnyOps == Ops \cup {"Trim"}

InitOps == InitWith(TracesOf(MaxLen, AnyOps), 1..MaxCap, {80}, Policies)

SpecOps == InitOps /\ [][Next]_vars

\* the keys of the traces built around one key sequence
ScenarioKeys == 0..(2 * NumKeys)

\* the rows that read the pages keys, one row per key
TraceOfKeys(keys) ==
  [i \in 1..Len(keys) |-> [offset |-> PageSize * keys[i], op |-> "Read"]]

\* the key sequence keys cut at any length, with at most one of its keys
\* replaced by any other key, as rows
ScenarioTraces(keys) ==
  {TraceOfKeys([i \in 1..m |-> IF i = j THEN x ELSE keys[i]]) :
     m \in 0..Len(keys), j \in 1..Len(keys), x \in ScenarioKeys}

\* one driver constructed with the given parameters and run on the traces
\* built around keys
InitScenario(keys, cap, tt, it, policy) ==
  /\ rows \in ScenarioTraces(keys)
  /\ sched = <<policy>>
  /\ lru = LRUInit(cap)
  /\ opt = OPTInit(cap)
  /\ arc = ARCInit(cap)
  /\ larc = LARCInit(cap)
  /\ nh = NHInit(cap, tt, it)
  /\ \E tr \in TrackingRatios : nhl = NHLInit(cap, tt, it, tr)

\* the ARC driver with capacity 4 on the traces around 1,2,3,4,1,5,2,6,1
S3Keys == <<1, 2, 3, 4, 1, 5, 2, 6, 1>>

InitS3 == InitScenario(S3Keys, 4, 80, 2, "ARC")

SpecS3 == InitS3 /\ [][ARCNext]_vars

\* the LARC driver with capacity 10 on the traces around X,Y1,Y2,Y3,X
S4Keys == <<0, 1, 2, 3, 0>>

InitS4 == InitScenario(S4Keys, 10, 80, 2, "LARC")

SpecS4 == InitS4 /\ [][LARCNext]_vars

\* the N-Hit lowest-count driver with capacity 2, trigger_threshold 0 and
\* insertion_threshold 3 on the traces around A,A,A,B,B,B,C,C,A
S5Keys == <<0, 0, 0, 1, 1, 1, 2, 2, 0>>

InitS5 == InitScenario(S5Keys, 2, 0, 3, "NH")

SpecS5 == InitS5 /\ [][NHNext]_vars

\* the ARC driver with capacity 5 on the traces around a key sequence that
\* fills both ghost lists: before its last request T1 = [7,8,9], T2 = [2,3],
\* B1 = [4,5,6], B2 = [0,1] and p = 3
GhostKeys == <<0, 0, 1, 2, 3, 4, 5, 1, 2, 3, 6, 7, 8, 9, 0>>

InitGhosts == InitScenario(GhostKeys, 5, 80, 2, "ARC")

SpecGhosts == InitGhosts /\ [][ARCNext]_vars

\* the LARC driver with capacity 10 on the traces around a key sequence that
\* admits eleven keys: each of the pages 0..10 requested twice in a row
AdmitKeys == [i \in 1..22 |-> (i - 1) \div 2]

InitAdmit == InitScenario(AdmitKeys, 10, 80, 2, "LARC")

SpecAdmit == InitAdmit /\ [][LARCNext]_vars

\* the N-Hit lowest-count driver with capacity 2, trigger_threshold 0 and
\* insertion_threshold 2 on the traces around A,B,B,C,C,A,B,C,D,D,A: before
\* the last request the cache holds C, admitted sixth with count 3, and D,
\* admitted seventh with count 2
EvictKeys == <<0, 1, 1, 2, 2, 0, 1, 2, 3, 3, 0>>

InitEvict == InitScenario(EvictKeys, 2, 0, 2, "NH")

SpecEvict == InitEvict /\ [][NHNext]_vars

\* the LARC driver alone with the capacities below 10, at which
\* recent_cache_limit = 0.1 * cache_size is below 1
SmallCapacities == 1..9

InitSmallLARC == InitWith(TracesOf(MaxLen, Ops), SmallCapacities, {80}, <<"LARC">>)

SpecSmallLARC == InitSmallLARC /\ [][LARCNext]_vars

\* the N-Hit LRU-eviction driver alone on traces of reads and writes, with
\* the threshold at and below 100 percent, N at and above 1 and a tracker of
\* cache_capacity // 2 or cache_capacity items
InitDegenerate ==
  /\ rows \in TracesOf(MaxLen, Ops)
  /\ sched = <<"NHL">>
  /\ \E cap \in 1..MaxCap :
       /\ lru = LRUInit(cap)
       /\ opt = OPTInit(cap)
       /\ arc = ARCInit(cap)
       /\ larc = LARCInit(cap)
       /\ \E tt \in {80, 100}, n \in {1, 2}, tr \in {[n |-> 1, d |-> 2], [n |-> 1, d |-> 1]} :
            /\ nh = NHInit(cap, tt, n)
            /\ nhl = NHLInit(cap, tt, n, tr)

SpecDegenerate == InitDegenerate /\ [][NHLNext]_vars

(***************************************************************************)
(* What a driver has reported so far.                                      *)
(***************************************************************************)
LRUMisses(l) == l.read_misses + l.write_misses

LRUHits(l) == (l.read_requests + l.write_requests) - LRUMisses(l)

SimHits(n) == n.read_hits + n.write_hits

NHLHits(h) == h.read_hits + h.write_hits

NHHits(h) == h.read_hits + h.write_hits

Resident(c) == Range(c.T1) \cup Range(c.T2)

HitIffResident ==
  [][/\ lru'.idx = lru.idx + 1 =>
          ((LRUMisses(lru') = LRUMisses(lru))
             <=> InSeq(lru.cache_store, rows[lru.idx + 1].offset))
     /\ opt'.i = opt.i + 1 =>
          /\ (opt'.total_hits = opt.total_hits + 1)
               <=> (opt.sequence[opt.i + 1].page \in opt.engine.cache)
          /\ (opt'.total_misses = opt.total_misses + 1)
               <=> (opt.sequence[opt.i + 1].page \notin opt.engine.cache)
     /\ arc'.idx = arc.idx + 1 =>
          /\ (SimHits(arc'.n) = SimHits(arc.n) + 1)
               <=> (arc.dataset[arc.idx + 1].page \in Resident(arc.engine))
          /\ arc'.engine.ret <=> (arc.dataset[arc.idx + 1].page \in Resident(arc.engine))
     /\ larc'.idx = larc.idx + 1 =>
          /\ (SimHits(larc'.n) = SimHits(larc.n) + 1)
               <=> InSeq(larc.engine.cache, larc.dataset[larc.idx + 1].page)
          /\ larc'.engine.ret <=> InSeq(larc.engine.cache, larc.dataset[larc.idx + 1].page)
     /\ nhl'.idx = nhl.idx + 1 =>
          ((NHLHits(nhl') = NHLHits(nhl) + 1)
             <=> InSeq(nhl.cache, rows[nhl.idx + 1].offset))
     /\ nh'.idx = nh.idx + 1 =>
          ((NHHits(nh') = NHHits(nh) + 1)
             <=> (rows[nh.idx + 1].offset \in DOMAIN nh.engine.cache))]_vars

\* every driver has run; each of LRU, Belady, ARC and the two N-Hit variants
\* has reported a hit, ARC has processed a B1 ghost hit (p > 0), and a key
\* that was already in the N-Hit tracking table has been missed again
HitIffResidentWitness ==
  /\ sched = <<>>
  /\ LRUHits(lru) > 0
  /\ opt.total_hits > 0
  /\ arc.engine.p > 0
  /\ SimHits(arc.n) > 0
  /\ NHLHits(nhl) > 0
  /\ NHHits(nh) > 0
  /\ \E k \in DOMAIN nh.engine.tracking : nh.engine.tracking[k] >= 2

(***************************************************************************)
(* C3: ARC: after every process_request the four lists T1, T2, B1 and B2   *)
(* are pairwise disjoint.                                                  *)
(***************************************************************************)
ARCListsDisjoint ==
  LET c == arc.engine
  IN /\ Range(c.T1) \cap Range(c.T2) = {}
     /\ Range(c.T1) \cap Range(c.B1) = {}
     /\ Range(c.T1) \cap Range(c.B2) = {}
     /\ Range(c.T2) \cap Range(c.B1) = {}
     /\ Range(c.T2) \cap Range(c.B2) = {}
     /\ Range(c.B1) \cap Range(c.B2) = {}

\* after a ghost hit (p > 0) keys are held in T1, in T2 and in a ghost list
\* at once
ARCListsDisjointWitness ==
  /\ arc.engine.p > 0
  /\ arc.engine.T1 # <<>>
  /\ arc.engine.T2 # <<>>
  /\ Len(arc.engine.B1) + Len(arc.engine.B2) > 0

(***************************************************************************)
(* C4: ARC: after every process_request |T1|+|T2| <= capacity,             *)
(* |T1|+|T2|+|B1|+|B2| <= 2*capacity and 0 <= p <= capacity.               *)
(***************************************************************************)
ARCSizes ==
  LET c == arc.engine
  IN /\ Len(c.T1) + Len(c.T2) <= c.cache_size
     /\ Len(c.T1) + Len(c.T2) + Len(c.B1) + Len(c.B2) <= 2 * c.cache_size
     /\ 0 <= c.p
     /\ c.p <= c.cache_size

\* p has reached the capacity, the cache is full and the ghost lists are
\* full: more keys were requested than the four lists hold
ARCSizesWitness ==
  LET c == arc.engine
  IN /\ c.p = c.cache_size
     /\ Len(c.T1) + Len(c.T2) = c.cache_size
     /\ Len(c.T1) + Len(c.T2) + Len(c.B1) + Len(c.B2) = 2 * c.cache_size
     /\ Cardinality({arc.dataset[i].page : i \in 1..arc.idx}) > 2 * c.cache_size

(***************************************************************************)
(* C5: LARC: after every request cache and recent_cache share no key and   *)
(* recent_cache_limit is within [0.1*capacity, 0.9*capacity], so neither   *)
(* divisor of the adaptation formulas (capacity - recent_cache_limit,      *)
(* recent_cache_limit) is zero and no request raises.                      *)
(***************************************************************************)
LARCLimitInRange ==
  LET c == larc.engine
  IN /\ Range(c.cache) \cap Range(c.recent_cache) = {}
     /\ RatLeq(Rat(c.cache_size, 10), c.recent_cache_limit)
     /\ RatLeq(c.recent_cache_limit, Rat(9 * c.cache_size, 10))
     /\ c.cache_size * c.recent_cache_limit.d - c.recent_cache_limit.n # 0
     /\ c.recent_cache_limit.n # 0
     /\ ~c.err
     /\ larc.pc # "failed"

\* the limit has been raised to 0.9*capacity by a recent_cache hit, after a
\* cache hit had been counted, and both cache and recent_cache hold keys
LARCLimitInRangeWitness ==
  LET c == larc.engine
  IN /\ c.recent_cache_limit = Rat(9 * c.cache_size, 10)
     /\ SimHits(larc.n) > 0
     /\ c.cache # <<>>
     /\ c.recent_cache # <<>>

(***************************************************************************)
(* C6: LARC: after every request the number of keys in recent_cache is at  *)
(* most floor(recent_cache_limit).                                         *)
(***************************************************************************)
LARCRecentWithinLimit ==
  Len(larc.engine.recent_cache) * larc.engine.recent_cache_limit.d
    <= larc.engine.recent_cache_limit.n

(***************************************************************************)
(* C7: Belady optimality.  As claimed: on every trace and capacity the     *)
(* total number of hits of the Belady/OPT engine is at least the total     *)
(* number of hits of each other policy (LRU, ARC, LARC, both N-Hit         *)
(* variants) on the same key sequence with the same capacity.              *)
(***************************************************************************)
BeladyOptimal ==
  sched = <<>> =>
    /\ opt.total_hits >= LRUHits(lru)
    /\ opt.total_hits >= SimHits(arc.n)
    /\ opt.total_hits >= SimHits(larc.n)
    /\ opt.total_hits >= NHLHits(nhl)
    /\ opt.total_hits >= NHHits(nh)

(***************************************************************************)
(* C7, amended: on every trace and capacity the total number of hits of    *)
(* the Belady/OPT engine is at least the total number of hits of LRU on    *)
(* the same key sequence with the same capacity.                           *)
(***************************************************************************)
BeladyAtLeastLRU == sched = <<>> => opt.total_hits >= LRUHits(lru)

\* both have evicted, and Belady has strictly more hits than LRU
BeladyAtLeastLRUWitness ==
  /\ sched = <<>>
  /\ opt.total_misses > opt.engine.capacity
  /\ LRUMisses(lru) > lru.max_capacity
  /\ opt.total_hits > LRUHits(lru)

(***************************************************************************)
(* C8: Belady: after every access_page every key in cache has an entry in  *)
(* page_next_use, and the victim of an eviction is a key that was resident *)
(* and whose page_next_use equalled the popped next-use value.             *)
(***************************************************************************)
\* the last access_page evicted a victim
Evicted(c) == c.evicted_nu # -1

BeladyVictimResident ==
  [][/\ opt'.engine.cache \subseteq DOMAIN opt'.engine.page_next_use
     /\ Evicted(opt'.engine) =>
          /\ opt'.engine.evicted_page \in opt.engine.cache
          /\ opt.engine.page_next_use[opt'.engine.evicted_page] = opt'.engine.evicted_nu
          /\ Cardinality(opt.engine.cache \ opt'.engine.cache) <= 1]_vars

\* an eviction that popped a stale entry before it found its victim
BeladyVictimResidentWitness ==
  /\ Evicted(opt.engine)
  /\ opt.engine.pops > 1
  /\ opt.engine.evicted_page \notin opt.engine.cache

(***************************************************************************)
(* C9: Belady: after every access_page the heap holds, for every resident  *)
(* key k, the entry (page_next_use[k], k); so with capacity >= 1 a miss    *)
(* on a full cache always evicts a victim.                                 *)
(***************************************************************************)
HeapHasCurrent(c) ==
  \A k \in c.cache :
    /\ k \in DOMAIN c.page_next_use
    /\ <<-c.page_next_use[k], k>> \in BagToSet(c.heap)

BeladyHeapComplete ==
  [][/\ HeapHasCurrent(opt'.engine)
     /\ (~opt'.engine.ret /\ Cardinality(opt.engine.cache) >= opt.engine.capacity) =>
          Evicted(opt'.engine)]_vars

\* a full cache after an eviction, with stale entries in the heap
BeladyHeapCompleteWitness ==
  /\ Evicted(opt.engine)
  /\ Cardinality(opt.engine.cache) = opt.engine.capacity
  /\ BagCardinality(opt.engine.heap) > Cardinality(opt.engine.cache)
  /\ HeapHasCurrent(opt.engine)

(***************************************************************************)
(* C10: stats additivity: the statistics every driver emits hold the nine  *)
(* counters, with read_hit + read_miss = read_req, write_hit + write_miss  *)
(* = write_req, total_req = read_req + write_req, total_hit = read_hit +   *)
(* write_hit and total_miss = read_miss + write_miss.                      *)
(***************************************************************************)
NineCounters ==
  {"read_req", "read_hit", "read_miss", "write_req", "write_hit", "write_miss",
   "total_req", "total_hit", "total_miss"}

Additive(s) ==
  /\ NineCounters \subseteq DOMAIN s
  /\ s.read_hit + s.read_miss = s.read_req
  /\ s.write_hit + s.write_miss = s.write_req
  /\ s.total_req = s.read_req + s.write_req
  /\ s.total_hit = s.read_hit + s.write_hit
  /\ s.total_miss = s.read_miss + s.write_miss

StatsAdditive ==
  /\ lru.pc = "done" => Additive(lru.stats)
  /\ opt.pc = "done" => Additive(opt.stats)
  /\ arc.pc = "done" => Additive(arc.stats)
  /\ larc.pc = "done" => Additive(larc.stats)
  /\ nhl.pc = "done" => Additive(nhl.stats)
  /\ nh.pc = "done" => Additive(nh.stats)

(***************************************************************************)
(* C11: N-Hit admission monotonicity.  As claimed: for each N-Hit variant, *)
(* a run with a lower trigger_threshold or a higher N / insertion_threshold*)
(* (other parameters equal) never has more total hits than the run with    *)
(* the original parameters on the same trace and capacity.  The run of the *)
(* model is the run with the lower threshold and the higher N.             *)
(***************************************************************************)
NHitHitsMonotone ==
  (nh.pc = "done" /\ nhl.pc = "done") =>
    \A tt \in ThresholdRange, n \in NRange :
      /\ (tt >= nh.engine.trigger_threshold /\ n <= nh.engine.insertion_threshold) =>
           NHHits(nh) <= NHHits(NHRun(NHInit(nh.engine.capacity, tt, n), rows))
      /\ (tt >= nhl.policy.trigger_threshold /\ n <= nhl.policy.N) =>
           \A tr \in TrackingRatios :
             NHLHits(nhl) <= NHLHits(NHLRun(NHLInit(nhl.capacity, tt, n, tr), rows))

\* the engine of N-Hit.py with other admission parameters
NHitWith(c, tt, n) == [c EXCEPT !.trigger_threshold = tt, !.insertion_threshold = n]

\* the tracker of LRU&N-Hit.py with other admission parameters
NHLWith(t, tt, n) == [t EXCEPT !.trigger_threshold = tt, !.N = n]

(***************************************************************************)
(* C11, amended: for each N-Hit variant and every state a run reaches, a   *)
(* missing key that should_promote admits under a lower trigger_threshold  *)
(* or a higher N / insertion_threshold (state and other parameters equal)  *)
(* is also admitted under the original parameters.                         *)
(***************************************************************************)
NHitAdmissionMonotone ==
  \A item \in Offsets, tt \in ThresholdRange, n \in NRange :
    /\ (item \notin DOMAIN nh.engine.cache
          /\ tt <= nh.engine.trigger_threshold /\ n >= nh.engine.insertion_threshold) =>
         LET c == NHitAccess(nh.engine, item)
         IN NHitShouldPromote(NHitWith(c, tt, n), item) => NHitShouldPromote(c, item)
    /\ (~InSeq(nhl.cache, item)
          /\ tt <= nhl.policy.trigger_threshold /\ n >= nhl.policy.N) =>
         LET t == record_access(nhl.policy, item)
         IN NHLShouldPromote(NHLWith(t, tt, n), item, FALSE, Len(nhl.cache))
              => NHLShouldPromote(t, item, FALSE, Len(nhl.cache))

\* both variants reach a state where the original parameters admit a missing
\* key that a lower threshold refuses
NHitAdmissionMonotoneWitness ==
  /\ \E item \in Offsets, tt \in ThresholdRange :
       /\ item \notin DOMAIN nh.engine.cache
       /\ nh.engine.cache # EmptyDict
       /\ tt < nh.engine.trigger_threshold
       /\ LET c == NHitAccess(nh.engine, item)
          IN /\ NHitShouldPromote(c, item)
             /\ ~NHitShouldPromote(NHitWith(c, tt, c.insertion_threshold), item)
  /\ \E item \in Offsets, tt \in ThresholdRange :
       /\ ~InSeq(nhl.cache, item)
       /\ nhl.cache # <<>>
       /\ tt < nhl.policy.trigger_threshold
       /\ LET t == record_access(nhl.policy, item)
          IN /\ NHLShouldPromote(t, item, FALSE, Len(nhl.cache))
             /\ ~NHLShouldPromote(NHLWith(t, tt, t.N), item, FALSE, Len(nhl.cache))

(***************************************************************************)
(* C12: on_request has no failure modes: for every policy constructed with *)
(* a positive capacity and any values of trigger_threshold, N /            *)
(* insertion_threshold and tracking_ratio, every request completes and     *)
(* returns Hit or Miss: no driver fails with an exception or hangs.        *)
(***************************************************************************)
Completes(d) == d.pc \notin {"failed", "hung"}

RequestsComplete ==
  /\ lru.max_capacity >= 1 => Completes(lru)
  /\ opt.cache_size >= 1 => Completes(opt)
  /\ arc.engine.cache_size >= 1 => Completes(arc) /\ ~arc.engine.hung
  /\ larc.engine.cache_size >= 1 => Completes(larc) /\ ~larc.engine.err
  /\ nh.engine.capacity >= 1 => Completes(nh) /\ ~nh.engine.err
  /\ nhl.capacity >= 1 => Completes(nhl) /\ ~nhl.policy.err

(***************************************************************************)
(* C13: invalid policy parameters are rejected at construction: a policy   *)
(* with a non-positive capacity, or an N-Hit policy with trigger_threshold *)
(* outside 0..100, never processes a request.                              *)
(***************************************************************************)
ValidThreshold(tt) == 0 <= tt /\ tt <= 100

InvalidParametersRejected ==
  /\ lru.max_capacity <= 0 => lru.read_requests + lru.write_requests = 0
  /\ opt.cache_size <= 0 => opt.i = 0
  /\ arc.engine.cache_size <= 0 => arc.idx = 0 /\ arc.engine.T1 = <<>>
  /\ larc.engine.cache_size <= 0 => larc.idx = 0 /\ larc.engine.recent_cache = <<>>
  /\ (nh.engine.capacity <= 0 \/ ~ValidThreshold(nh.engine.trigger_threshold)) =>
       nh.total_requests = 0
  /\ (nhl.capacity <= 0 \/ ~ValidThreshold(nhl.policy.trigger_threshold)) =>
       nhl.read_requests + nhl.write_requests = 0 /\ nhl.policy.access_counts = EmptyDict

(***************************************************************************)
(* C14: a trace row whose op is not one of the two accepted values is      *)
(* skipped by every driver: it increments none of the read, write or total *)
(* counters and leaves the policy state (resident set, recency order,      *)
(* tracking tables) unchanged.  The drivers that load the trace first keep *)
(* no such row; the drivers that read the rows in their loop change        *)
(* nothing when they pass one.                                             *)
(***************************************************************************)
InvalidOp(row) == row.op \notin Ops

LRUCounters(l) == <<l.read_requests, l.read_misses, l.write_requests, l.write_misses>>

NHCounters(h) ==
  <<h.total_requests, h.read_hits, h.read_misses, h.write_hits, h.write_misses,
    h.cold_misses>>

NHLCounters(h) == <<h.read_requests, h.write_requests, h.read_hits, h.write_hits>>

InvalidRowSkipped ==
  [][/\ (opt.pc = "load" /\ opt'.pc = "run") =>
          Len(opt'.sequence) = Cardinality({i \in 1..Len(rows) : ~InvalidOp(rows[i])})
     /\ (arc.pc = "load" /\ arc'.pc = "run") =>
          Len(arc'.dataset) = Cardinality({i \in 1..Len(rows) : ~InvalidOp(rows[i])})
     /\ (larc.pc = "load" /\ larc'.pc = "run") =>
          Len(larc'.dataset) = Cardinality({i \in 1..Len(rows) : ~InvalidOp(rows[i])})
     /\ (lru'.idx = lru.idx + 1 /\ InvalidOp(rows[lru'.idx])) =>
          /\ LRUCounters(lru') = LRUCounters(lru)
          /\ lru'.cache_store = lru.cache_store
     /\ (nh'.idx = nh.idx + 1 /\ InvalidOp(rows[nh'.idx])) =>
          /\ NHCounters(nh') = NHCounters(nh)
          /\ nh'.engine.cache = nh.engine.cache
          /\ nh'.engine.tracking = nh.engine.tracking
          /\ nh'.engine.sorted_items = nh.engine.sorted_items
     /\ (nhl'.idx = nhl.idx + 1 /\ InvalidOp(rows[nhl'.idx])) =>
          /\ NHLCounters(nhl') = NHLCounters(nhl)
          /\ nhl'.cache = nhl.cache
          /\ nhl'.policy.access_counts = nhl.policy.access_counts
          /\ nhl'.policy.tracking_queue = nhl.policy.tracking_queue]_vars

(***************************************************************************)
(* C15: LRU: the first access to a key never seen before is a Miss, and a  *)
(* request for the same key as the immediately preceding request is a Hit, *)
(* for every capacity >= 1 and every key sequence.                         *)
(***************************************************************************)
\* the keys of the first n rows
KeysUpTo(n) == {rows[i].offset : i \in 1..n}

LRUFirstMissRepeatHit ==
  [][(lru'.idx = lru.idx + 1 /\ lru.max_capacity >= 1) =>
       LET key == rows[lru'.idx].offset
       IN /\ key \notin KeysUpTo(lru.idx) => ~lru'.ret
          /\ (lru.idx >= 1 /\ rows[lru.idx].offset = key) => lru'.ret]_vars

\* an immediate repeat that hits right after a miss that evicted, and later
\* the first access of another key
LRUFirstMissRepeatHitWitness ==
  /\ lru.idx >= 4
  /\ rows[lru.idx].offset \notin KeysUpTo(lru.idx - 1)
  /\ ~lru.ret
  /\ rows[lru.idx - 1].offset = rows[lru.idx - 2].offset
  /\ rows[lru.idx - 2].offset \notin KeysUpTo(lru.idx - 3)
  /\ lru.idx - 3 >= lru.max_capacity
  /\ LRUHits(lru) >= 1

(***************************************************************************)
(* C16: LRU capacity-invariance: once at least capacity distinct keys have *)
(* been requested, the LRU occupancy equals capacity after that request    *)
(* and after every later request.                                          *)
(***************************************************************************)
LRUStaysFull ==
  (lru.max_capacity >= 1 /\ Cardinality(KeysUpTo(lru.idx)) >= lru.max_capacity) =>
    Len(lru.cache_store) = lru.max_capacity

\* after the store filled up there were evictions and hits
LRUStaysFullWitness ==
  /\ lru.max_capacity >= 2
  /\ Cardinality(KeysUpTo(lru.idx)) > lru.max_capacity
  /\ LRUMisses(lru) > Cardinality(KeysUpTo(lru.idx))
  /\ LRUHits(lru) >= 1
  /\ Len(lru.cache_store) = lru.max_capacity

(***************************************************************************)
(* C17: N-Hit LRU-eviction variant: after every request the access-count   *)
(* table holds at most max_tracked = int(tracking_ratio * capacity) keys,  *)
(* and the tracking FIFO queue and the table contain exactly the same set  *)
(* of keys, each key once in the queue.                                    *)
(***************************************************************************)
NHLTrackingConsistent ==
  LET t == nhl.policy
  IN /\ \E tr \in TrackingRatios :
          t.max_tracked_items = IntOf(tr.n * nhl.capacity, tr.d)
     /\ Cardinality(DOMAIN t.access_counts) <= t.max_tracked_items
     /\ Range(t.tracking_queue) = DOMAIN t.access_counts
     /\ Len(t.tracking_queue) = Cardinality(Range(t.tracking_queue))

\* the table is full, a tracked key was forgotten to make room and another
\* one left the table when it was promoted
NHLTrackingConsistentWitness ==
  LET t == nhl.policy
  IN /\ Cardinality(DOMAIN t.access_counts) = t.max_tracked_items
     /\ nhl.cache # <<>>
     /\ \E k \in KeysUpTo(nhl.idx) : k \notin DOMAIN t.access_counts /\ ~InSeq(nhl.cache, k)
     /\ \E k \in DOMAIN t.access_counts : t.access_counts[k] >= 2

(***************************************************************************)
(* C18: N-Hit lowest-count variant: after every request the ordered index  *)
(* sorted_items is in bijection with the cache: each resident key has      *)
(* exactly one tuple (nhit, insertion_seq, key) in the index, with nhit =  *)
(* cache[key], and every tuple of the index names a resident key.          *)
(***************************************************************************)
NHIndexBijection ==
  LET c == nh.engine
      Entries(k) == {i \in 1..Len(c.sorted_items) : c.sorted_items[i][3] = k}
  IN /\ \A k \in DOMAIN c.cache :
          /\ Cardinality(Entries(k)) = 1
          /\ \A i \in Entries(k) : c.sorted_items[i][1] = c.cache[k]
     /\ \A i \in 1..Len(c.sorted_items) : c.sorted_items[i][3] \in DOMAIN c.cache
     /\ Len(c.sorted_items) = Cardinality(DOMAIN c.cache)

\* a full cache of two keys with different counts, after an eviction
NHIndexBijectionWitness ==
  LET c == nh.engine
  IN /\ Cardinality(DOMAIN c.cache) = c.capacity
     /\ c.capacity >= 2
     /\ c.insertion_counter > c.capacity
     /\ \E k1, k2 \in DOMAIN c.cache : c.cache[k1] < c.cache[k2]

(***************************************************************************)
(* C19: cold-miss accounting: in the driver of each of the two N-Hit       *)
(* variants cold_misses is incremented exactly on a miss whose key is not  *)
(* yet in the seen set, so at the end of the run the statistics report     *)
(* cold_misses equal to the number of distinct keys that ever missed, and  *)
(* cold_misses <= total_miss.                                              *)
(***************************************************************************)
ColdMissesOf(stats) ==
  /\ "cold_misses" \in DOMAIN stats
  /\ stats.cold_misses = Cardinality(KeysUpTo(Len(rows)))
  /\ stats.cold_misses <= stats.total_miss

NHColdStep ==
  nh'.idx = nh.idx + 1 =>
    LET key == rows[nh'.idx].offset
        cold == ~nh'.ret /\ key \notin nh.tracked_access
    IN /\ nh'.cold_misses = nh.cold_misses + (IF cold THEN 1 ELSE 0)
       /\ nh'.tracked_access = nh.tracked_access \cup (IF nh'.ret THEN {} ELSE {key})

ColdMissAccounting ==
  [][/\ NHColdStep
     /\ nh'.pc = "done" => ColdMissesOf(nh'.stats)
     /\ nhl'.pc = "done" => ColdMissesOf(nhl'.stats)]_vars

(***************************************************************************)
(* C20: scenario S2: Belady with capacity 2 on the key trace A,B,C,A,B,A   *)
(* (next-use from the precompute) yields the outcome sequence              *)
(* Miss,Miss,Miss,Hit,Miss,Hit and total_hit = 2.                          *)
(***************************************************************************)
\* the keys A, B, C as the pages 0, 1, 2
S2Keys == <<0, 1, 2, 0, 1, 0>>

S2Trace == [i \in 1..Len(S2Keys) |-> [offset |-> PageSize * S2Keys[i], op |-> "Read"]]

S2Hits == <<FALSE, FALSE, FALSE, TRUE, FALSE, TRUE>>

BeladyS2 ==
  (rows = S2Trace /\ opt.cache_size = 2) =>
    /\ (opt.pc = "run" /\ opt.i >= 1) => opt.engine.ret = S2Hits[opt.i]
    /\ opt.pc = "run" =>
         opt.total_hits = Cardinality({j \in 1..opt.i : S2Hits[j]})
    /\ opt.pc = "done" =>
         /\ opt.i = Len(S2Keys)
         /\ opt.total_hits = 2
         /\ opt.stats.total_hit = 2
         /\ opt.stats.total_miss = 4

\* the scenario has run to its end
BeladyS2Witness ==
  /\ rows = S2Trace
  /\ opt.cache_size = 2
  /\ opt.pc = "done"
  /\ opt.next_use = <<3, 4, INFINITY, 5, INFINITY, INFINITY>>

(***************************************************************************)
(* C21: scenario S2, victim choice: when Belady with capacity 2 processes  *)
(* the third access (key C) of the trace A,B,C,A,B,A, the key that ends up *)
(* non-resident is C, and A and B are both resident after that access.     *)
(***************************************************************************)
\* the keys A, B, C as the page offsets the Belady driver is given
S2A == PageSize * 0

S2B == PageSize * 1

S2C == PageSize * 2

\* the Belady driver has just processed the third access of scenario S2
S2AfterThird ==
  /\ rows = S2Trace
  /\ opt.cache_size = 2
  /\ opt.pc = "run"
  /\ opt.i = 3

BeladyS2EvictsC ==
  S2AfterThird => /\ S2C \notin opt.engine.cache
                  /\ {S2A, S2B} \subseteq opt.engine.cache

\* C21 as the code has it: the third access evicts B, the resident key with
\* the farthest next use (4 against 3 for A), and admits C; A and C are the
\* resident keys after that access
BeladyS2EvictsB ==
  S2AfterThird => /\ opt.engine.cache = {S2A, S2C}
                  /\ ~opt.engine.ret
                  /\ Evicted(opt.engine)
                  /\ opt.engine.evicted_page = S2B
                  /\ opt.engine.evicted_nu = 4

\* the third access of the scenario has evicted its victim
BeladyS2EvictsBWitness ==
  /\ S2AfterThird
  /\ Evicted(opt.engine)
  /\ S2B \notin opt.engine.cache

(***************************************************************************)
(* C22: scenario S3: ARC with capacity 4 on the key trace                  *)
(* 1,2,3,4,1,5,2,6,1 ends with 0 <= p <= 4 and |T1|+|T2| = 4; key 1 is in  *)
(* T1 or T2 after every access from its re-reference (the 5th access) to   *)
(* the end; key 6 is in T1 or T2 after the final access.                   *)
(***************************************************************************)
ARCScenarioS3 ==
  (rows = TraceOfKeys(S3Keys) /\ arc.pc \in {"run", "done"}) =>
    /\ arc.engine.cache_size = 4
    /\ arc.idx >= 5 => 1 \in Resident(arc.engine)
    /\ arc.idx = Len(S3Keys) =>
         /\ arc.engine.p \in 0..4
         /\ Len(arc.engine.T1) + Len(arc.engine.T2) = 4
         /\ 6 \in Resident(arc.engine)
    /\ arc.pc = "done" => arc.idx = Len(S3Keys)

\* the scenario has run to its end: p was raised by the ghost hit on key 2
ARCScenarioS3Witness ==
  /\ rows = TraceOfKeys(S3Keys)
  /\ arc.pc = "done"
  /\ arc.engine.p = 1
  /\ arc.engine.T1 = <<5, 6>>
  /\ arc.engine.T2 = <<2, 1>>
  /\ arc.engine.B1 = <<3, 4>>

(***************************************************************************)
(* C23: scenario S4: LARC with capacity 10, starting empty, on a trace     *)
(* where key X is requested, then 3 other distinct keys, then X again: the *)
(* first X is a Miss that places X in recent_cache; the second X is a Miss *)
(* that moves X into cache and leaves recent_cache_limit strictly greater  *)
(* than before that access.                                                *)
(***************************************************************************)
\* the LARC driver processes request number k of the trace of keys
LARCHandles(keys, k) ==
  /\ rows = TraceOfKeys(keys)
  /\ larc.pc = "run"
  /\ larc.idx = k - 1
  /\ larc'.idx = k

\* the first request of X: a Miss that places X in recent_cache
S4FirstX(keys) ==
  LARCHandles(keys, 1) =>
    /\ ~larc'.engine.ret
    /\ larc'.engine.recent_cache = <<keys[1]>>
    /\ larc'.engine.cache = <<>>

\* request number k is a Miss that moves its key into cache and raises
\* recent_cache_limit
S4Promotes(keys, k) ==
  LARCHandles(keys, k) =>
    /\ ~larc'.engine.ret
    /\ InSeq(larc'.engine.cache, keys[k])
    /\ ~InSeq(larc'.engine.recent_cache, keys[k])
    /\ ~RatLeq(larc'.engine.recent_cache_limit, larc.engine.recent_cache_limit)

LARCScenarioS4 == [][S4FirstX(S4Keys) /\ S4Promotes(S4Keys, 5)]_vars

\* C23 as the code has it: with capacity 10 recent_cache_limit is 1.0, so
\* recent_cache holds one key and the first other key drops X; the second X
\* is a Miss that places X in recent_cache again, with cache still empty and
\* recent_cache_limit unchanged.  X is moved into cache, with a strictly
\* greater recent_cache_limit, when its second request follows the first
\* directly.
LARCScenarioS4Readmits ==
  [][/\ S4FirstX(S4Keys)
     /\ LARCHandles(S4Keys, 5) =>
          /\ ~InSeq(larc.engine.recent_cache, 0)
          /\ ~larc'.engine.ret
          /\ larc'.engine.recent_cache = <<0>>
          /\ larc'.engine.cache = <<>>
          /\ larc'.engine.recent_cache_limit = larc.engine.recent_cache_limit
          /\ larc'.engine.recent_cache_limit = Rat(1, 1)
     /\ S4FirstX(<<0, 0>>)
     /\ S4Promotes(<<0, 0>>, 2)]_vars

\* the scenario has run to its end: five misses and an empty cache
LARCScenarioS4ReadmitsWitness ==
  /\ rows = TraceOfKeys(S4Keys)
  /\ larc.pc = "done"
  /\ larc.engine.recent_cache = <<0>>
  /\ larc.engine.cache = <<>>
  /\ larc.stats.read_miss = 5

(***************************************************************************)
(* C24: scenario S5: N-Hit lowest-count with capacity 2, trigger_threshold *)
(* = 0 and insertion_threshold = 3 on the key trace A,A,A,B,B,B,C,C,A: A   *)
(* enters the cache on its third access (its first two accesses are misses *)
(* that do not promote it) and B enters the cache on its third access.     *)
(***************************************************************************)
\* the keys A and B as the offsets the N-Hit driver is given
S5A == PageSize * 0

S5B == PageSize * 1

\* the N-Hit driver processes request number k of scenario S5
NHHandlesS5(k) ==
  /\ rows = TraceOfKeys(S5Keys)
  /\ nh.pc = "run"
  /\ nh.idx = k - 1
  /\ nh'.idx = k

\* request number k is a miss that leaves key out of the cache
S5MissNotPromoted(k, key) ==
  NHHandlesS5(k) => /\ ~nh'.ret
                    /\ ~nh'.engine.promoted
                    /\ key \notin DOMAIN nh'.engine.cache

\* request number k is a miss that promotes key into the cache
S5MissPromoted(k, key) ==
  NHHandlesS5(k) => /\ ~nh'.ret
                    /\ nh'.engine.promoted
                    /\ key \notin DOMAIN nh.engine.cache
                    /\ key \in DOMAIN nh'.engine.cache

NHitScenarioS5 ==
  [][/\ S5MissNotPromoted(1, S5A)
     /\ S5MissNotPromoted(2, S5A)
     /\ S5MissPromoted(3, S5A)
     /\ S5MissPromoted(6, S5B)]_vars

\* C24 as the code has it: the empty cache has occupancy 0% <= 0, so
\* should_promote admits A on its first access whatever its count, and the
\* second and third accesses of A are hits; B, requested at occupancy 50%,
\* enters the cache on its third access after two misses that do not
\* promote it
NHitScenarioS5FirstAccess ==
  [][/\ S5MissPromoted(1, S5A)
     /\ \A k \in {2, 3} : NHHandlesS5(k) => nh'.ret /\ S5A \in DOMAIN nh'.engine.cache
     /\ S5MissNotPromoted(4, S5B)
     /\ S5MissNotPromoted(5, S5B)
     /\ S5MissPromoted(6, S5B)
     /\ NHHandlesS5(6) => DOMAIN nh'.engine.cache = {S5A, S5B}]_vars

\* the scenario has run to its end: A was admitted with count 1, B with 3
NHitScenarioS5FirstAccessWitness ==
  /\ rows = TraceOfKeys(S5Keys)
  /\ nh.pc = "done"
  /\ DOMAIN nh.engine.cache = {S5A, S5B}
  /\ nh.engine.cache[S5A] = 1
  /\ nh.engine.cache[S5B] = 3
  /\ nh.read_hits = 3

(***************************************************************************)
(* C25: LRU replacement order: a hit moves the key to the most-recent end  *)
(* and changes nothing else; a miss with size = capacity drops exactly the *)
(* least-recently-accessed resident key and then inserts the requested key *)
(* at the most-recent end; hence capacity 2 on the trace A,B,A,C,B gives   *)
(* Miss,Miss,Hit,Miss,Miss (read_req=5, read_hit=1, read_miss=4).          *)
(***************************************************************************)
\* the position of the last request of key k among the first n rows
LastAccess(k, n) ==
  LET at == {j \in 1..n : rows[j].offset = k}
  IN IF at = {} THEN 0 ELSE CHOOSE j \in at : \A i \in at : i <= j

\* the sequence s without the key k, in the same order
Without(s, k) == SelectSeq(s, LAMBDA x : x # k)

\* scenario S1: the keys A, B, A, C, B and their outcomes
S1Keys == <<0, 1, 0, 2, 1>>

S1Hits == <<FALSE, FALSE, TRUE, FALSE, FALSE>>

\* what one request of key on the store does
LRUOrder(store, cap, key, store2, ret2) ==
  /\ ret2 = (key \in Range(store))
  /\ key \in Range(store) => store2 = Without(store, key) \o <<key>>
  /\ (key \notin Range(store) /\ Len(store) = cap) =>
       /\ store2 = Tail(store) \o <<key>>
       /\ \A r \in Range(store) :
            LastAccess(Head(store), lru.idx) <= LastAccess(r, lru.idx)
  /\ (key \notin Range(store) /\ Len(store) < cap) => store2 = store \o <<key>>

LRUReplacementOrder ==
  [][/\ (lru.pc = "run" /\ lru'.idx = lru.idx + 1) =>
          LRUOrder(lru.cache_store, lru.max_capacity, rows[lru.idx + 1].offset,
                   lru'.cache_store, lru'.ret)
     /\ (rows = TraceOfKeys(S1Keys) /\ lru.max_capacity = 2) =>
          /\ (lru'.pc = "run" /\ lru'.idx >= 1) => lru'.ret = S1Hits[lru'.idx]
          /\ lru'.pc = "done" =>
               /\ lru'.stats.read_req = 5
               /\ lru'.stats.read_hit = 1
               /\ lru'.stats.read_miss = 4]_vars

\* scenario S1 has run to its end: C replaced B, then B replaced A
LRUReplacementOrderWitness ==
  /\ rows = TraceOfKeys(S1Keys)
  /\ lru.max_capacity = 2
  /\ lru.pc = "done"
  /\ lru.cache_store = <<PageSize * 2, PageSize * 1>>
  /\ lru.stats.read_hit = 1

(***************************************************************************)
(* C26: Belady victim selection: on a miss with |cache| = capacity exactly *)
(* one key is evicted, and it is a resident key whose current              *)
(* page_next_use is the maximum over all resident keys; in particular, if  *)
(* some resident key has next-use INFINITY, the victim has next-use        *)
(* INFINITY.                                                               *)
(***************************************************************************)
\* the keys the call that led from engine c to engine d removed
VictimsOf(c, d) == c.cache \ d.cache

\* v is the one victim of the call, and no resident key of c was to be used
\* later than v
FarthestVictim(c, d, v) ==
  /\ VictimsOf(c, d) = {v}
  /\ Evicted(d)
  /\ d.evicted_nu = c.page_next_use[v]
  /\ \A r \in c.cache : c.page_next_use[r] <= c.page_next_use[v]
  /\ (\E r \in c.cache : c.page_next_use[r] = INFINITY) =>
       c.page_next_use[v] = INFINITY

BeladyVictimFarthest ==
  [][(opt'.engine # opt.engine /\ ~opt'.engine.ret
        /\ Cardinality(opt.engine.cache) = opt.engine.capacity) =>
       \E v \in opt.engine.cache : FarthestVictim(opt.engine, opt'.engine, v)]_vars

\* a key never used again was evicted while a key with a finite next use
\* stayed resident
BeladyVictimFarthestWitness ==
  /\ Evicted(opt.engine)
  /\ opt.engine.evicted_nu = INFINITY
  /\ opt.engine.capacity > 1
  /\ \E r \in opt.engine.cache : opt.engine.page_next_use[r] < INFINITY

(***************************************************************************)
(* C27: OPT precompute: for every request sequence and every position i,   *)
(* precompute_next_use returns next_use[i] = the smallest j > i with the   *)
(* same key as position i, or INFINITY when the key does not occur after   *)
(* i.                                                                      *)
(***************************************************************************)
\* the 0-based positions after the 0-based position i that request the key
\* of position i
LaterUses(sequence, i) ==
  {j \in (i + 1)..(Len(sequence) - 1) : sequence[j + 1].page = sequence[i + 1].page}

NextUseIsSmallestLater ==
  opt.pc \in {"run", "done"} =>
    /\ Len(opt.next_use) = Len(opt.sequence)
    /\ \A i \in 0..(Len(opt.sequence) - 1) :
         LET later == LaterUses(opt.sequence, i)
         IN IF later = {}
              THEN opt.next_use[i + 1] = INFINITY
              ELSE /\ opt.next_use[i + 1] \in later
                   /\ \A j \in later : opt.next_use[i + 1] <= j

\* a key requested three times with another key in between
NextUseIsSmallestLaterWitness ==
  /\ opt.pc = "run"
  /\ Len(opt.sequence) = 4
  /\ opt.sequence[1].page = opt.sequence[3].page
  /\ opt.sequence[1].page # opt.sequence[2].page
  /\ opt.next_use = <<2, INFINITY, 3, INFINITY>>

(***************************************************************************)
(* C28: ARC adaptation arithmetic: on a B1 ghost hit p becomes             *)
(* min(capacity, p + max(1, ceil(|B2| / max(1,|B1|)))), and on a B2 ghost  *)
(* hit p becomes max(0, p - max(1, ceil(|B1| / max(1,|B2|)))), with |B1|   *)
(* and |B2| taken before the key is removed from its ghost list; i.e. the  *)
(* ratio is rounded up.                                                    *)
(***************************************************************************)
\* a / b rounded up, for a >= 0 and b > 0
CeilDiv(a, b) == (a + b - 1) \div b

\* the ARC driver processes a request
ARCHandles ==
  /\ arc.pc = "run"
  /\ arc'.idx = arc.idx + 1

\* the page of the request the ARC driver processes
ARCPage == arc.dataset[arc.idx + 1].page

ARCAdaptationRoundsUp ==
  [][ARCHandles =>
       /\ InSeq(arc.engine.B1, ARCPage) =>
            arc'.engine.p =
              Min(arc.engine.cache_size,
                  arc.engine.p + Max(1, CeilDiv(Len(arc.engine.B2),
                                                Max(1, Len(arc.engine.B1)))))
       /\ InSeq(arc.engine.B2, ARCPage) =>
            arc'.engine.p =
              Max(0, arc.engine.p - Max(1, CeilDiv(Len(arc.engine.B1),
                                                   Max(1, Len(arc.engine.B2)))))]_vars

(***************************************************************************)
(* C29: ARC balancing and ghost trimming after a miss: while |T1|+|T2| >   *)
(* capacity, the oldest T1 entry is moved to the most-recent end of B1 if  *)
(* |T1| > p, otherwise the oldest T2 entry is moved to the most-recent end *)
(* of B2; then while |T1|+|T2|+|B1|+|B2| > 2*capacity, the oldest B1 entry *)
(* is dropped if |B1| > p, otherwise the oldest B2 entry is dropped.  No   *)
(* other key changes list.                                                 *)
(***************************************************************************)
\* the four lists of engine c once the missed page is placed: a ghost key
\* leaves its ghost list for the most-recent end of T2, a new key goes to
\* the most-recent end of T1
Placed(c, page) ==
  IF InSeq(c.B1, page)
    THEN [T1 |-> c.T1, T2 |-> Append(c.T2, page), B1 |-> Without(c.B1, page), B2 |-> c.B2]
  ELSE IF InSeq(c.B2, page)
    THEN [T1 |-> c.T1, T2 |-> Append(c.T2, page), B1 |-> c.B1, B2 |-> Without(c.B2, page)]
  ELSE [T1 |-> Append(c.T1, page), T2 |-> c.T2, B1 |-> c.B1, B2 |-> c.B2]

\* one round of the balancing loop on the lists l, with the adapted p
BalancedOnce(l, capacity, p) ==
  IF Len(l.T1) + Len(l.T2) > capacity
    THEN IF Len(l.T1) > p
      THEN [l EXCEPT !.T1 = Tail(@), !.B1 = l.B1 \o <<Head(l.T1)>>]
      ELSE [l EXCEPT !.T2 = Tail(@), !.B2 = l.B2 \o <<Head(l.T2)>>]
    ELSE l

\* one round of the trimming loop on the lists l
TrimmedOnce(l, capacity, p) ==
  IF Len(l.T1) + Len(l.T2) + Len(l.B1) + Len(l.B2) > 2 * capacity
    THEN IF Len(l.B1) > p
      THEN [l EXCEPT !.B1 = Tail(@)]
      ELSE [l EXCEPT !.B2 = Tail(@)]
    ELSE l

\* the lists of engine c
ListsOf(c) == [T1 |-> c.T1, T2 |-> c.T2, B1 |-> c.B1, B2 |-> c.B2]

\* the lists l need no further round of either loop
Settled(l, capacity) ==
  /\ Len(l.T1) + Len(l.T2) <= capacity
  /\ Len(l.T1) + Len(l.T2) + Len(l.B1) + Len(l.B2) <= 2 * capacity

ARCBalanceAndTrim ==
  [][(ARCHandles /\ ~arc'.engine.ret) =>
         LET capacity == arc.engine.cache_size
             p == arc'.engine.p
             balanced == BalancedOnce(Placed(arc.engine, ARCPage), capacity, p)
             trimmed == TrimmedOnce(balanced, capacity, p)
         IN /\ ListsOf(arc'.engine) = trimmed
            /\ Settled(trimmed, capacity)]_vars

\* capacity 1 on the pages 0,0,1,1,2: the miss on 2 found T2 = [1], B2 = [0]
\* and p = 1, demoted 1 from T2 to B2 and dropped 0 from B2
ARCBalanceAndTrimWitness ==
  /\ rows = TraceOfKeys(<<0, 0, 1, 1, 2>>)
  /\ arc.engine.cache_size = 1
  /\ arc.pc = "run"
  /\ arc.idx = 5
  /\ arc.engine.p = 1
  /\ ListsOf(arc.engine) = [T1 |-> <<2>>, T2 |-> <<>>, B1 |-> <<>>, B2 |-> <<1>>]

(***************************************************************************)
(* C30: LARC admission step: a request for a key in recent_cache returns   *)
(* Miss, raises recent_cache_limit to min(0.9*capacity, limit +            *)
(* capacity/limit), removes the key from recent_cache and inserts it at    *)
(* the most-recent end of cache, dropping the oldest cache entry only if   *)
(* |cache| then exceeds capacity; a request for a key in cache returns     *)
(* Hit, moves it to the most-recent end and never increases                *)
(* recent_cache_limit.                                                     *)
(***************************************************************************)
\* the sum of two fractions
RatPlus(x, y) == Rat(x.n * y.d + y.n * x.d, x.d * y.d)

\* the whole number c divided by the nonzero fraction x
RatOver(c, x) == Rat(c * x.d, x.n)

\* the LARC driver processes a request
LARCStepTaken ==
  /\ larc.pc = "run"
  /\ larc'.pc = "run"
  /\ larc'.idx = larc.idx + 1

\* the page of the request the LARC driver processes
LARCPage == larc.dataset[larc.idx + 1].page

\* the admission of page from recent_cache, from engine c to engine d
Admitted(c, d, page) ==
  LET grown == c.cache \o <<page>>
  IN /\ ~d.ret
     /\ d.recent_cache_limit =
          RatMin(Rat(9 * c.cache_size, 10),
                 RatPlus(c.recent_cache_limit, RatOver(c.cache_size, c.recent_cache_limit)))
     /\ RatLeq(c.recent_cache_limit, d.recent_cache_limit)
     /\ d.recent_cache = Without(c.recent_cache, page)
     /\ d.cache = IF Len(grown) > c.cache_size THEN Tail(grown) ELSE grown

\* the hit on page in cache, from engine c to engine d
HitInCache(c, d, page) ==
  /\ d.ret
  /\ d.cache = Without(c.cache, page) \o <<page>>
  /\ d.recent_cache = c.recent_cache
  /\ RatLeq(d.recent_cache_limit, c.recent_cache_limit)

LARCAdmissionStep ==
  [][LARCStepTaken =>
       /\ InSeq(larc.engine.cache, LARCPage) =>
            HitInCache(larc.engine, larc'.engine, LARCPage)
       /\ (~InSeq(larc.engine.cache, LARCPage)
             /\ InSeq(larc.engine.recent_cache, LARCPage)) =>
            Admitted(larc.engine, larc'.engine, LARCPage)]_vars

\* the eleventh admission has dropped page 0, the oldest entry of cache
LARCAdmissionStepWitness ==
  /\ rows = TraceOfKeys(AdmitKeys)
  /\ larc.pc = "run"
  /\ larc.idx = Len(AdmitKeys)
  /\ larc.engine.cache = [i \in 1..10 |-> i]
  /\ larc.engine.recent_cache = <<>>
  /\ larc.engine.recent_cache_limit = Rat(9, 1)

(***************************************************************************)
(* C31: N-Hit LRU-eviction admission: every request first records the      *)
(* access in the tracker; on a miss the key is inserted into the LRU cache *)
(* if and only if 100*|LRU|/capacity <= trigger_threshold or counts[key]   *)
(* >= N (count taken after recording this access); when it is inserted     *)
(* the key is removed from both the count table and the FIFO queue, and    *)
(* when it is not inserted the LRU cache is unchanged.                     *)
(***************************************************************************)
\* the N-Hit LRU-eviction driver processes a request
NHLHandles ==
  /\ nhl.pc = "run"
  /\ nhl'.pc = "run"
  /\ nhl'.idx = nhl.idx + 1

\* the key of the request the N-Hit LRU-eviction driver processes
NHLItem == rows[nhl.idx + 1].offset

\* the count of item once this access is recorded in the tracker t
CountAfterRecording(t, item) ==
  IF item \in DOMAIN t.access_counts THEN t.access_counts[item] + 1 ELSE 1

\* the admission test of the claim on the driver state d
NHLAdmits(d, item) ==
  \/ 100 * Len(d.cache) <= d.policy.trigger_threshold * d.capacity
  \/ CountAfterRecording(d.policy, item) >= d.policy.N

\* item is tracked by t with the count n
TrackedWith(t, item, n) ==
  /\ item \in DOMAIN t.access_counts
  /\ t.access_counts[item] = n
  /\ InSeq(t.tracking_queue, item)

NHLAdmission ==
  [][NHLHandles =>
       LET n == CountAfterRecording(nhl.policy, NHLItem)
       IN IF InSeq(nhl.cache, NHLItem)
            THEN /\ nhl'.ret
                 /\ TrackedWith(nhl'.policy, NHLItem, n)
            ELSE /\ ~nhl'.ret
                 /\ nhl'.promoted = NHLAdmits(nhl, NHLItem)
                 /\ InSeq(nhl'.cache, NHLItem) = NHLAdmits(nhl, NHLItem)
                 /\ NHLAdmits(nhl, NHLItem) =>
                      /\ nhl'.cache[Len(nhl'.cache)] = NHLItem
                      /\ NHLItem \notin DOMAIN nhl'.policy.access_counts
                      /\ ~InSeq(nhl'.policy.tracking_queue, NHLItem)
                 /\ ~NHLAdmits(nhl, NHLItem) =>
                      /\ nhl'.cache = nhl.cache
                      /\ TrackedWith(nhl'.policy, NHLItem, n)]_vars

\* with trigger_threshold 0 a key was admitted into a non-empty cache, so by
\* its count
NHLAdmissionWitness ==
  /\ nhl.pc = "run"
  /\ nhl.promoted
  /\ nhl.policy.trigger_threshold = 0
  /\ nhl.capacity = 2
  /\ Len(nhl.cache) = 2

(***************************************************************************)
(* C32: N-Hit lowest-count eviction: a promotion into a full cache         *)
(* (|cache| = capacity) evicts exactly one key, the resident key with the  *)
(* smallest nhit recorded at its admission, and among equal nhit the one   *)
(* with the smallest insertion_seq (admitted earliest); a promotion into a *)
(* non-full cache evicts nothing.                                          *)
(***************************************************************************)
\* the N-Hit lowest-count driver processes a request
NHHandles ==
  /\ nh.pc = "run"
  /\ nh'.pc = "run"
  /\ nh'.idx = nh.idx + 1

\* the key of the request the N-Hit lowest-count driver processes
NHItem == rows[nh.idx + 1].offset

\* the insertion_seq the index of engine c holds for the resident key k
InsertionSeq(c, k) ==
  LET i == CHOOSE j \in 1..Len(c.sorted_items) : c.sorted_items[j][3] = k
  IN c.sorted_items[i][2]

\* v was admitted with a smaller nhit than r, or with the same nhit earlier
EvictedBefore(c, v, r) ==
  \/ c.cache[v] < c.cache[r]
  \/ c.cache[v] = c.cache[r] /\ InsertionSeq(c, v) <= InsertionSeq(c, r)

NHLowestCountEvicted ==
  [][(NHHandles /\ nh'.engine.promoted) =>
       LET c == nh.engine
           gone == DOMAIN c.cache \ DOMAIN nh'.engine.cache
       IN /\ NHItem \in DOMAIN nh'.engine.cache
          /\ Cardinality(DOMAIN c.cache) < c.capacity => gone = {}
          /\ Cardinality(DOMAIN c.cache) = c.capacity =>
               \E v \in DOMAIN c.cache :
                 /\ gone = {v}
                 /\ \A r \in DOMAIN c.cache : EvictedBefore(c, v, r)]_vars

\* the last request of the trace found C (count 3, admitted sixth) and D
\* (count 2, admitted seventh) resident and evicted D, the later admission
NHLowestCountEvictedWitness ==
  /\ rows = TraceOfKeys(EvictKeys)
  /\ nh.pc = "run"
  /\ nh.idx = Len(EvictKeys)
  /\ nh.engine.promoted
  /\ DOMAIN nh.engine.cache = {PageSize * 0, PageSize * 2}
  /\ nh.engine.cache[PageSize * 2] = 3
  /\ nh.engine.insertion_counter = 8

(***************************************************************************)
(* C33: N-Hit lowest-count admission: on a miss, tracking[key] is          *)
(* incremented by one and the key is promoted if and only if               *)
(* 100*|cache|/capacity <= trigger_threshold (occupancy measured before    *)
(* the promotion) or the incremented tracking[key] >= insertion_threshold; *)
(* a promoted key is stored with cache[key] = tracking[key] and a fresh,   *)
(* strictly larger insertion_seq.                                          *)
(***************************************************************************)
\* the number of misses the engine c has counted for item
TrackedCount(c, item) == IF item \in DOMAIN c.tracking THEN c.tracking[item] ELSE 0

\* the admission test of the claim on the engine c for a count of n
NHAdmits(c, n) ==
  \/ 100 * Cardinality(DOMAIN c.cache) <= c.trigger_threshold * c.capacity
  \/ n >= c.insertion_threshold

\* the insertion_seq values of the index of engine c
SeqsOf(c) == {c.sorted_items[i][2] : i \in 1..Len(c.sorted_items)}

NHAdmission ==
  [][(NHHandles /\ NHItem \notin DOMAIN nh.engine.cache) =>
       LET c == nh.engine
           d == nh'.engine
           n == TrackedCount(c, NHItem) + 1
       IN /\ ~nh'.ret
          /\ NHItem \in DOMAIN d.tracking
          /\ d.tracking[NHItem] = n
          /\ \A k \in DOMAIN c.tracking \ {NHItem} : TrackedCount(d, k) = c.tracking[k]
          /\ d.promoted = NHAdmits(c, n)
          /\ (NHItem \in DOMAIN d.cache) = NHAdmits(c, n)
          /\ NHAdmits(c, n) =>
               /\ d.cache[NHItem] = n
               /\ d.insertion_counter = c.insertion_counter + 1
               /\ <<n, d.insertion_counter, NHItem>> \in Range(d.sorted_items)
               /\ \A q \in SeqsOf(c) : q < d.insertion_counter
          /\ ~NHAdmits(c, n) =>
               /\ d.cache = c.cache
               /\ d.sorted_items = c.sorted_items
               /\ d.insertion_counter = c.insertion_counter]_vars

\* the third admission came at full occupancy, so by the count of the key
NHAdmissionWitness ==
  /\ nh.pc = "run"
  /\ nh.engine.promoted
  /\ nh.engine.trigger_threshold = 80
  /\ nh.engine.capacity = 2
  /\ nh.engine.insertion_counter = 3
  /\ \E k \in DOMAIN nh.engine.cache : nh.engine.cache[k] = 2

(***************************************************************************)
(* C34: N-Hit lowest-count, effect of a hit: a request for a resident key  *)
(* leaves cache, tracking, the ordered index and the insertion counter all *)
(* unchanged; hence tracking[key] always equals the number of misses on    *)
(* key so far, never decreases and is never removed, and a resident key's  *)
(* eviction priority (nhit at admission) is not raised by later hits.      *)
(***************************************************************************)
\* the driver state before request number j of the trace, from a fresh
\* engine with the parameters of engine c
NHBefore(c, j) ==
  NHRun(NHInit(c.capacity, c.trigger_threshold, c.insertion_threshold),
        SubSeq(rows, 1, j - 1))

\* the number of misses on key k among the first n requests of the trace
MissesOn(c, k, n) ==
  Cardinality({j \in 1..n : /\ rows[j].offset = k
                            /\ k \notin DOMAIN NHBefore(c, j).engine.cache})

\* the keys of the trace
KeysOfTrace == {rows[j].offset : j \in 1..Len(rows)}

NHHitFrame ==
  [][NHHandles =>
       LET c == nh.engine
           d == nh'.engine
       IN /\ NHItem \in DOMAIN c.cache =>
               /\ nh'.ret
               /\ d.cache = c.cache
               /\ d.tracking = c.tracking
               /\ d.sorted_items = c.sorted_items
               /\ d.insertion_counter = c.insertion_counter
          /\ \A k \in KeysOfTrace :
               /\ TrackedCount(d, k) = MissesOn(c, k, nh'.idx)
               /\ TrackedCount(d, k) >= TrackedCount(c, k)
               /\ k \in DOMAIN c.tracking => k \in DOMAIN d.tracking
               /\ (k \in DOMAIN c.cache /\ k \in DOMAIN d.cache) =>
                    /\ d.cache[k] = c.cache[k]
                    /\ InsertionSeq(d, k) = InsertionSeq(c, k)]_vars

\* the second hit in a row on a key that was admitted with count 1
NHHitFrameWitness ==
  /\ nh.pc = "run"
  /\ nh.ret
  /\ nh.read_hits >= 2
  /\ nh.idx >= 3
  /\ LET k == rows[nh.idx].offset
     IN /\ rows[nh.idx - 1].offset = k
        /\ k \in DOMAIN nh.engine.cache
        /\ nh.engine.cache[k] = 1
        /\ nh.engine.tracking[k] = 1

(***************************************************************************)
(* C35: ARC loop termination: in every state reachable with capacity >= 1, *)
(* both while loops of process_request terminate, because whenever the     *)
(* balancing loop takes the T2 branch (|T1| <= p) T2 is non-empty, and     *)
(* whenever the trimming loop takes the B2 branch (|B1| <= p) B2 is        *)
(* non-empty, so every iteration removes one entry.                        *)
(***************************************************************************)
\* the pages a trace can request
Pages == {offset \div PageSize : offset \in Offsets}

ARCLoopsTerminate ==
  arc.engine.cache_size >= 1 =>
    /\ arc.pc # "hung"
    /\ ~arc.engine.hung
    /\ \A page \in Pages : ~ARCProcessRequest(arc.engine, page).hung

\* every request of a long trace is processed, the T2 branch of the
\* balancing loop was taken (B2 holds a key) and p was raised
ARCLoopsTerminateWitness ==
  /\ arc.pc = "done"
  /\ arc.idx = DeepLen
  /\ arc.engine.p >= 1
  /\ arc.engine.B2 # <<>>
  /\ arc.engine.cache_size = 2

(***************************************************************************)
(* C36: ARC does not guarantee that the requested key is resident after a  *)
(* miss: states are reachable in which process_request(key) returns Miss   *)
(* and key is in B1 or B2 (not in T1 or T2) on return, because the         *)
(* balancing pass demotes the key just inserted; with capacity 1 the trace *)
(* A,A,B ends with B in B1, and the trace A,B,A ends with A in B2 after    *)
(* its B1 ghost hit.                                                       *)
(***************************************************************************)
\* the ARC driver with capacity 1 has processed the whole trace of keys
ARCAfter(keys) ==
  /\ rows = TraceOfKeys(keys)
  /\ arc.engine.cache_size = 1
  /\ arc.pc = "run"
  /\ arc.idx = Len(keys)

\* the last request was a miss whose key is a ghost on return
MissedIntoGhost(c, key) ==
  /\ ~c.ret
  /\ key \notin Resident(c)
  /\ InSeq(c.B1, key) \/ InSeq(c.B2, key)

ARCMissNotResident ==
  /\ ARCAfter(<<0, 0, 1>>) =>
       /\ MissedIntoGhost(arc.engine, 1)
       /\ arc.engine.B1 = <<1>>
       /\ arc.engine.T2 = <<0>>
  /\ ARCAfter(<<0, 1, 0>>) =>
       /\ MissedIntoGhost(arc.engine, 0)
       /\ arc.engine.B2 = <<0>>
       /\ arc.engine.T1 = <<1>>
       /\ arc.engine.p = 1

\* the B1 ghost hit on A has raised p to 1 and sent A from T2 to B2
ARCMissNotResidentWitness ==
  /\ ARCAfter(<<0, 1, 0>>)
  /\ MissedIntoGhost(arc.engine, 0)
  /\ InSeq(arc.engine.B2, 0)

(***************************************************************************)
(* C37: LARC with capacity from 1 to 9 never admits anything:              *)
(* recent_cache_limit stays at 0.1*capacity < 1, every new key is dropped  *)
(* from recent_cache in the same request that inserted it, so after every  *)
(* request both recent_cache and cache are empty and every request of      *)
(* every trace is a Miss.                                                  *)
(***************************************************************************)
LARCSmallNeverAdmits ==
  larc.engine.cache_size \in SmallCapacities =>
    /\ larc.engine.recent_cache_limit = Rat(larc.engine.cache_size, 10)
    /\ larc.engine.recent_cache_limit.n < larc.engine.recent_cache_limit.d
    /\ larc.engine.cache = <<>>
    /\ larc.engine.recent_cache = <<>>
    /\ ~larc.engine.ret
    /\ SimHits(larc.n) = 0
    /\ larc.pc \in {"load", "run", "skipped", "done"}
    /\ larc.pc = "run" =>
         larc.n.read_misses + larc.n.write_misses = larc.idx
    /\ larc.pc = "done" =>
         /\ larc.stats.total_hit = 0
         /\ larc.stats.total_miss = Len(rows)

\* capacity 9 on a trace that requests its first key again at once: every
\* request was a Miss
LARCSmallNeverAdmitsWitness ==
  /\ larc.engine.cache_size = 9
  /\ larc.pc = "done"
  /\ Len(rows) = MaxLen
  /\ rows[1].offset = rows[2].offset
  /\ larc.stats.total_miss = MaxLen

(***************************************************************************)
(* C38: Belady lazy invalidation is never exercised when next_use comes    *)
(* from precompute_next_use: at every miss at trace index i, each stale    *)
(* heap entry has next-use value <= i while each resident key's current    *)
(* entry has next-use value > i, so the first entry popped during an       *)
(* eviction is always valid, and stale entries are never removed from the  *)
(* heap.                                                                   *)
(***************************************************************************)
\* the heap entry e of engine c is the current entry of a resident key
CurrentEntry(c, e) ==
  /\ e[2] \in c.cache
  /\ e[2] \in DOMAIN c.page_next_use
  /\ c.page_next_use[e[2]] = -e[1]

\* the stale entries of the heap of engine c
StaleEntries(c) == {e \in BagToSet(c.heap) : ~CurrentEntry(c, e)}

\* the Belady driver processes the request at the 0-based trace index opt.i
OPTHandles ==
  /\ opt.pc = "run"
  /\ opt'.pc = "run"
  /\ opt'.i = opt.i + 1

BeladyNoStalePop ==
  [][(OPTHandles /\ ~opt'.engine.ret) =>
       LET c == opt.engine
           d == opt'.engine
       IN /\ \A e \in BagToSet(c.heap) :
               IF CurrentEntry(c, e) THEN -e[1] > opt.i ELSE -e[1] <= opt.i
          /\ Cardinality(c.cache) >= c.capacity =>
               /\ Evicted(d)
               /\ d.pops = 1
               /\ CurrentEntry(c, <<-d.evicted_nu, d.evicted_page>>)
          /\ Cardinality(c.cache) < c.capacity => d.pops = 0
          /\ \A e \in StaleEntries(c) : CopiesIn(e, d.heap) >= CopiesIn(e, c.heap)]_vars

\* an eviction that popped one entry while the heap held stale entries
BeladyNoStalePopWitness ==
  /\ opt.pc = "run"
  /\ Evicted(opt.engine)
  /\ opt.engine.pops = 1
  /\ opt.engine.capacity = 2
  /\ \E e \in StaleEntries(opt.engine) : e[2] \in opt.engine.cache
  /\ \E e \in StaleEntries(opt.engine) : e[2] \notin opt.engine.cache

(***************************************************************************)
(* C39: N-Hit LRU-eviction degenerates to plain LRU: with                  *)
(* trigger_threshold >= 100 (or with N <= 1), capacity >= 1 and            *)
(* max_tracked >= 1, on every trace of read/write requests the N-Hit       *)
(* LRU-eviction simulator produces the same hit/miss sequence and the same *)
(* LRU contents and recency order after every request as the plain LRU     *)
(* policy with the same capacity.                                          *)
(***************************************************************************)
\* the plain LRU cache of capacity cap after the first k rows of rs: its
\* store in recency order and what the last access returned
RECURSIVE LRUAfter(_, _, _)
LRUAfter(cap, rs, k) ==
  IF k = 0 THEN [store |-> <<>>, ret |-> FALSE, err |-> FALSE]
  ELSE access_or_update_cache(LRUAfter(cap, rs, k - 1).store, cap, rs[k].offset)

\* the knobs under which every miss is promoted
NHLDegenerateKnobs ==
  /\ nhl.policy.trigger_threshold >= 100 \/ nhl.policy.N <= 1
  /\ nhl.capacity >= 1
  /\ nhl.policy.max_tracked_items >= 1

NHLDegeneratesToLRU ==
  NHLDegenerateKnobs =>
    /\ nhl.pc # "failed"
    /\ LET l == LRUAfter(nhl.capacity, rows, nhl.idx)
       IN /\ ~l.err
          /\ nhl.cache = l.store
          /\ nhl.idx >= 1 => nhl.ret = l.ret

\* a run at the threshold of 100 percent with N = 2 in which a key was hit
\* and the next miss, the first access of its key, evicted it from the full
\* cache
NHLDegeneratesToLRUWitness ==
  /\ NHLDegenerateKnobs
  /\ nhl.policy.trigger_threshold = 100
  /\ nhl.policy.N = 2
  /\ nhl.capacity = 1
  /\ nhl.pc = "done"
  /\ Len(rows) = MaxLen
  /\ rows[1].offset = rows[2].offset
  /\ rows[3].offset # rows[1].offset
  /\ rows[1].op = "Write"
  /\ rows[3].op = "Read"
  /\ nhl.cache = <<rows[3].offset>>
  /\ NHLHits(nhl) = 1

====
